---- MODULE Spec2Model ----
(***************************************************************************)
(* A model of the arbitrage core of workhorse-pi:                          *)
(*   core/arbitrage_strategy.py  ArbitrageStrategy (detector, executor,    *)
(*                               adaptive feedback)                        *)
(*   core/solana_client.py       SolanaClient (buy_token, sell_token,      *)
(*                               execute_jupiter_swap)                     *)
(*                                                                         *)
(* Numbers.  The program computes with floats.  The model uses fixed point *)
(* integers: a percentage is counted in units of 0.001 % (PctUnit units    *)
(* are one percent), a price and a quote-token amount in cents, a          *)
(* base-token amount in thousandths of a token.  Divisions round down.     *)
(***************************************************************************)
EXTENDS Integers, Sequences, FiniteSets, TLC

PctUnit == 10 * 100          \* units of a percentage per one percent
Cent == 10 * 10              \* cents per unit of the quote token
Milli == 10 * 100            \* thousandths per unit of the base token

Min2(a, b) == IF a <= b THEN a ELSE b
Max2(a, b) == IF a >= b THEN a ELSE b

(***************************************************************************)
(* Configuration (ArbitrageStrategy.__init__).                             *)
(***************************************************************************)
\* config['arbitrage']['price_sources'], in list order
price_sources == <<"jupiter", "raydium">>
\* config['arbitrage']['tokens'], in list order
tokens == <<"SOL", "USDC", "RAY">>
\* config['arbitrage']['min_samples'] (default 10), configured to 2
min_samples == 2
\* config['arbitrage']['cooldown_seconds'] (default 300), configured to 2 clock ticks
cooldown_period == 2
\* the hard-coded history capacity of update_prices
max_history == 100
\* config['performance']['max_trade_history'], the capacity of the trade log,
\* as configured here (100 when the key is absent)
max_trade_history == 2

(***************************************************************************)
(* Bounds of the model.                                                    *)
(***************************************************************************)
\* the clock stops at MaxTime
MaxTime == 3
\* a history is fed at most MaxSamples samples: once a source qualifies, more
\* samples change neither which sources qualify nor the prices it can show
MaxSamples == min_samples
\* min_profit_percentage is tightened while it is at most MaxThreshold
MaxThreshold == 600
\* the trade history grows to at most MaxTrades records
MaxTrades == 3
\* reset() does not clear the reports already made: at most MaxReports are made
MaxReports == 3

\* the pairs the price feed delivers, and the prices (in cents) of each source
FedPairs == {<<"SOL", "USDC">>, <<"RAY", "USDC">>}
FedPrices(source) == IF source = "jupiter" THEN {10000, 10200} ELSE {10100}

VARIABLES
    \* ---- ArbitrageStrategy: detector state
    price_history,          \* dict  <<source, pair>> -> list of [price]
    last_arbitrage,         \* dict  <<buy source, sell source, pair>> -> time
    min_profit_percentage,  \* in PctUnit
    \* ---- ArbitrageStrategy: performance tracking
    total_profit,           \* cents
    trades_executed,
    successful_trades,
    trade_history,          \* list of trade records
    \* ---- ArbitrageStrategy: the error-reporting collaborator
    trading_bot,            \* self.trading_bot, given at construction
    reports,                \* the report_trade_error calls made, in order
    \* ---- configuration and chain client
    trading_mode,           \* config['trading']['mode']
    client,                 \* the attributes of the solana_client passed in
    venue_quote,            \* how the venue quotes the buy leg of the trade
    configured_sources,     \* config['arbitrage']['price_sources'] as the fetch reads it
    \* ---- one execute_arbitrage_trade call
    pc,                     \* the client call the coroutine is suspended in
    trade,                  \* its locals: signal, trade_amount, buy_result, ...
    result,                 \* the dict it returned
    calls,                  \* the client calls it made, in order
    submissions,            \* send_transaction calls made for each leg
    network,                \* the trade sent a request to an RPC node or an API
    \* ---- ArbitrageBot (main.py), PriceFeedManager, SolanaClient connection
    running,                \* ArbitrageBot.running
    should_stop,            \* ArbitrageBot._should_stop
    main_loops,             \* start() tasks that are in the main loop
    feed_running,           \* PriceFeedManager._running
    feed_loops,             \* _rest_price_loop tasks alive
    callbacks,              \* entries of PriceFeedManager._callbacks
    client_closed,          \* SolanaClient.close() was awaited
    tick_tasks,             \* scheduled on_price_update tasks: their price data
    in_flight,              \* execute_arbitrage_trade calls awaited by handlers
    \* ---- environment and observation
    now,                    \* the reading of time.time()
    signal,                 \* what the last detect_opportunities call returned
    delivered,              \* samples each source delivered in a long run
    \* ---- PriceFeedManager: the cached price and what the fetches gave
    current_price,          \* self._current_price
    last_update,            \* self._last_update
    dex_prices,             \* what the last fetch_all_dex_prices call returned
    got,                    \* the last get_current_price call: value, fetched
    last_op                 \* the operation the last step performed

detector_vars == <<price_history, last_arbitrage, signal>>
stats_vars == <<total_profit, trades_executed, successful_trades, trade_history>>
config_vars == <<trading_mode, client, venue_quote, configured_sources>>
report_vars == <<trading_bot, reports>>
executor_vars == <<pc, trade, result, calls, submissions, network>>
bot_vars == <<running, should_stop, main_loops, feed_running, feed_loops, callbacks,
              client_closed, tick_tasks, in_flight>>

feed_vars == <<current_price, last_update, dex_prices, got>>

vars == <<detector_vars, min_profit_percentage, stats_vars, config_vars, report_vars,
          executor_vars, bot_vars, now, last_op, delivered, feed_vars>>

\* the Python value None
None == [none |-> TRUE]

\* self._last_update = None: a time before every time of the clock
NoTime == 0 - 1

\* detect_opportunities returning None
NoSignal == [action |-> "none"]

\* an empty dict
EmptyDict == [k \in {} |-> 0]

\* d[key] = value on a dict
DictPut(d, key, value) ==
    [k \in DOMAIN d \cup {key} |-> IF k = key THEN value ELSE d[k]]

(***************************************************************************)
(* estimate_transaction_costs                                              *)
(***************************************************************************)
\* trading_fees.get(dex, 0.25), in hundredths of a percent
TradingFee(dex) ==
    CASE dex = "jupiter"   -> 10
      [] dex = "raydium"   -> 22
      [] dex = "openbook"  -> 14
      [] dex = "orca"      -> 25
      [] dex = "meteora"   -> 20
      [] dex = "phoenix"   -> 5
      [] dex = "invariant" -> 18
      [] dex = "cykura"    -> 30
      [] dex = "saros"     -> 20
      [] dex = "step"      -> 25
      [] OTHER             -> 25

high_liquidity_tokens == {"SOL", "USDC", "USDT", "ETH"}
medium_liquidity_tokens == {"RAY", "ORCA", "SRM", "MNGO"}

\* the per-token factor of the slippage multiplier, in hundredths
TokenMultiplier(token) ==
    IF token \in high_liquidity_tokens THEN 100
    ELSE IF token \in medium_liquidity_tokens THEN 125
    ELSE 150

\* slippage_multiplier, in ten-thousandths
SlippageMultiplier(pair) ==
    IF pair[1] \in high_liquidity_tokens /\ pair[2] \in high_liquidity_tokens
    THEN 5000
    ELSE TokenMultiplier(pair[1]) * TokenMultiplier(pair[2])

\* total_percentage_cost, in PctUnit: the two fees, twice the slippage
\* (base_slippage 0.05 % times the multiplier) and the 0.03 % buffer.
\* Computed in units of 0.00001 % and then brought to PctUnit.
estimate_transaction_costs(source1, source2, pair) ==
    (TradingFee(source1) * 1000 + TradingFee(source2) * 1000
       + (2 * 5000 * SlippageMultiplier(pair)) \div 10000
       + 3000) \div 100

(***************************************************************************)
(* detect_opportunities                                                    *)
(***************************************************************************)
\* the token pairs in the order of the two nested loops over self.tokens
PairList ==
    LET n == Len(tokens)
        all == [i \in 1..(n * n) |-> <<tokens[((i - 1) \div n) + 1], tokens[((i - 1) % n) + 1]>>]
    IN SelectSeq(all, LAMBDA p : p[1] # p[2])

\* a sample test that takes a history one entry short of min_samples
QualifiedSourcesLoose(ph, pair) ==
    SelectSeq(price_sources,
              LAMBDA s : <<s, pair>> \in DOMAIN ph /\ Len(ph[<<s, pair>>]) >= min_samples - 1)

\* the sources whose history for the pair holds at least min_samples entries,
\* in the order of self.price_sources (the insertion order of `prices`)
QualifiedSources(ph, pair) ==
    SelectSeq(price_sources,
              LAMBDA s : <<s, pair>> \in DOMAIN ph /\ Len(ph[<<s, pair>>]) >= min_samples)

\* self.price_history[key][-1]['price']
LatestPrice(ph, source, pair) == ph[<<source, pair>>][Len(ph[<<source, pair>>])].price

\* min(prices, key=prices.get): the first source with the lowest price
LowestSource(ph, pair, srcs) ==
    LET i == CHOOSE i \in 1..Len(srcs) :
                 /\ \A j \in 1..Len(srcs) : LatestPrice(ph, srcs[j], pair) >= LatestPrice(ph, srcs[i], pair)
                 /\ \A j \in 1..(i - 1) : LatestPrice(ph, srcs[j], pair) > LatestPrice(ph, srcs[i], pair)
    IN srcs[i]

\* max(prices, key=prices.get): the first source with the highest price
HighestSource(ph, pair, srcs) ==
    LET i == CHOOSE i \in 1..Len(srcs) :
                 /\ \A j \in 1..Len(srcs) : LatestPrice(ph, srcs[j], pair) <= LatestPrice(ph, srcs[i], pair)
                 /\ \A j \in 1..(i - 1) : LatestPrice(ph, srcs[j], pair) < LatestPrice(ph, srcs[i], pair)
    IN srcs[i]

\* (price_diff / lowest_price) * 100, in PctUnit
ProfitPercentage(lowest_price, highest_price) ==
    ((highest_price - lowest_price) * 100 * PctUnit) \div lowest_price

\* a cooldown test that lets a corridor through one tick early
InCooldownShort(la, pair_key, current_time) ==
    pair_key \in DOMAIN la /\ current_time - la[pair_key] < cooldown_period - 1

\* pair_key in self.last_arbitrage and current_time - last < cooldown_period
InCooldown(la, pair_key, current_time) ==
    pair_key \in DOMAIN la /\ current_time - la[pair_key] < cooldown_period

\* net_profit > 0.05
ClearsSafetyMargin(net_profit) == net_profit > 50

\* the body of the loop for one token pair: the candidate of the pair, if it
\* passes the threshold, the cooldown and the safety margin
Candidate(ph, mp, la, t, pair) ==
    LET srcs == QualifiedSources(ph, pair)
    IN IF Len(srcs) < 2 THEN <<>>
       ELSE LET lowest_source == LowestSource(ph, pair, srcs)
                highest_source == HighestSource(ph, pair, srcs)
                lowest_price == LatestPrice(ph, lowest_source, pair)
                highest_price == LatestPrice(ph, highest_source, pair)
                profit_percentage == ProfitPercentage(lowest_price, highest_price)
                pair_key == <<lowest_source, highest_source, pair>>
                net_profit == profit_percentage
                                - estimate_transaction_costs(lowest_source, highest_source, pair)
            IN IF /\ profit_percentage > mp
                  /\ ~InCooldown(la, pair_key, t)
                  /\ ClearsSafetyMargin(net_profit)
               THEN << [token_pair |-> pair,
                        buy_source |-> lowest_source, buy_price |-> lowest_price,
                        sell_source |-> highest_source, sell_price |-> highest_price,
                        profit_percentage |-> profit_percentage,
                        net_profit |-> net_profit] >>
               ELSE <<>>

\* the cooldown entries one detect_opportunities call writes: the loop sets
\* self.last_arbitrage[pair_key] = current_time when it appends a candidate
RecordCooldown(la, opp, t) ==
    DictPut(la, <<opp.buy_source, opp.sell_source, opp.token_pair>>, t)

\* the loop over the pairs from index i on: the opportunities list and the ledger
RECURSIVE ScanPairs(_, _, _, _, _, _)
ScanPairs(i, ph, mp, t, opps, la) ==
    IF i > Len(PairList) THEN [opportunities |-> opps, last_arbitrage |-> la]
    ELSE LET c == Candidate(ph, mp, la, t, PairList[i])
         IN IF c = <<>> THEN ScanPairs(i + 1, ph, mp, t, opps, la)
            ELSE ScanPairs(i + 1, ph, mp, t, opps \o c, RecordCooldown(la, c[1], t))

\* a choice that takes the last of the best opportunities
LastBestOpportunity(opps) ==
    LET i == CHOOSE i \in 1..Len(opps) :
                 /\ \A j \in 1..Len(opps) : opps[j].net_profit <= opps[i].net_profit
                 /\ \A j \in (i + 1)..Len(opps) : opps[j].net_profit < opps[i].net_profit
    IN opps[i]

\* max(opportunities, key=lambda x: x['net_profit']): the first of the best
BestOpportunity(opps) ==
    LET i == CHOOSE i \in 1..Len(opps) :
                 /\ \A j \in 1..Len(opps) : opps[j].net_profit <= opps[i].net_profit
                 /\ \A j \in 1..(i - 1) : opps[j].net_profit < opps[i].net_profit
    IN opps[i]

\* a signal that reports the gross spread as the expected profit
MakeSignalGross(best) ==
    [action |-> "arbitrage",
     token_pair |-> best.token_pair,
     buy |-> [source |-> best.buy_source, price |-> best.buy_price],
     sell |-> [source |-> best.sell_source, price |-> best.sell_price],
     expected_profit |-> best.profit_percentage,
     confidence |-> Min2(100 * PctUnit, best.net_profit * 10)]

\* the signal dict built from the best opportunity
MakeSignal(best) ==
    [action |-> "arbitrage",
     token_pair |-> best.token_pair,
     buy |-> [source |-> best.buy_source, price |-> best.buy_price],
     sell |-> [source |-> best.sell_source, price |-> best.sell_price],
     expected_profit |-> best.net_profit,
     confidence |-> Min2(100 * PctUnit, best.net_profit * 10)]

\* the corridor (buy source, sell source, pair) of a signal
Corridor(sig) == <<sig.buy.source, sig.sell.source, sig.token_pair>>

(***************************************************************************)
(* Operations of the detector                                              *)
(***************************************************************************)
\* what the callers pass to update_prices; a dict without 'source' is ignored
PriceInputs ==
    UNION { [source : {s}, token_pair : FedPairs, price : FedPrices(s)] :
              s \in {"jupiter", "raydium"} }
      \cup { [token_pair |-> <<"SOL", "USDC">>, price |-> 10000] }

\* a cut that keeps the first max_history entries
AppendKeepOldest(hist, entry) ==
    LET h == Append(hist, entry)
    IN IF Len(h) > max_history THEN SubSeq(h, 1, max_history) ELSE h

\* the list after the append and the cut to the last max_history entries
AppendBounded(hist, entry) ==
    LET h == Append(hist, entry)
    IN IF Len(h) > max_history THEN SubSeq(h, Len(h) - max_history + 1, Len(h)) ELSE h

\* self.price_history[key], or [] for a key that is not there yet
HistoryOf(ph, key) == IF key \in DOMAIN ph THEN ph[key] ELSE <<>>

\* the price history after update_prices(price_data)
update_prices(ph, price_data) ==
    IF "source" \notin DOMAIN price_data \/ "token_pair" \notin DOMAIN price_data
    THEN ph
    ELSE LET key == <<price_data.source, price_data.token_pair>>
         IN DictPut(ph, key, AppendBounded(HistoryOf(ph, key), [price |-> price_data.price]))

UpdatePrices(price_data) ==
    /\ ("source" \in DOMAIN price_data /\ "token_pair" \in DOMAIN price_data)
          => Len(HistoryOf(price_history, <<price_data.source, price_data.token_pair>>)) < MaxSamples
    /\ price_history' = update_prices(price_history, price_data)
    /\ last_op' = "update_prices"
    /\ UNCHANGED <<last_arbitrage, signal, min_profit_percentage, stats_vars, config_vars, report_vars, delivered, feed_vars, bot_vars, executor_vars, now>>

DetectOpportunities ==
    LET scan == ScanPairs(1, price_history, min_profit_percentage, now, <<>>, last_arbitrage)
    IN /\ last_arbitrage' = scan.last_arbitrage
       /\ signal' = IF scan.opportunities # <<>>
                    THEN MakeSignal(BestOpportunity(scan.opportunities))
                    ELSE NoSignal
       /\ last_op' = "detect_opportunities"
       /\ UNCHANGED <<price_history, min_profit_percentage, stats_vars, config_vars, report_vars, delivered, feed_vars, bot_vars, executor_vars, now>>

\* time passes
Tick ==
    /\ now < MaxTime
    /\ now' = now + 1
    /\ last_op' = "tick"
    /\ UNCHANGED <<detector_vars, min_profit_percentage, stats_vars, config_vars, report_vars, delivered, feed_vars, bot_vars, executor_vars>>

\* a reset that leaves the cooldown ledger as it is
ResetKeepsCooldowns ==
    /\ price_history' = EmptyDict
    /\ total_profit' = 0
    /\ trades_executed' = 0
    /\ successful_trades' = 0
    /\ trade_history' = <<>>
    /\ last_op' = "reset"
    /\ UNCHANGED <<last_arbitrage, min_profit_percentage, signal, config_vars, report_vars, delivered, feed_vars, bot_vars, executor_vars, now>>

\* ArbitrageStrategy.reset
Reset ==
    /\ price_history' = EmptyDict
    /\ last_arbitrage' = EmptyDict
    /\ total_profit' = 0
    /\ trades_executed' = 0
    /\ successful_trades' = 0
    /\ trade_history' = <<>>
    /\ last_op' = "reset"
    /\ UNCHANGED <<min_profit_percentage, signal, config_vars, report_vars, delivered, feed_vars, bot_vars, executor_vars, now>>

(***************************************************************************)
(* The chain client (core/solana_client.py)                                *)
(***************************************************************************)
\* a Python value that was not produced yet
NoTrade == [signal |-> NoSignal]
NoResult == [pending |-> TRUE]

\* dict.update, and the dict with more keys
RecordMerge(r, u) ==
    [k \in DOMAIN r \cup DOMAIN u |-> IF k \in DOMAIN u THEN u[k] ELSE r[k]]

\* SolanaClient.token_addresses
token_addresses == {"SOL", "USDC", "USDT"}

\* What the executor reads of its solana_client.  A SolanaClient has
\* get_jupiter_quote and token_addresses and defines no token_decimals; its
\* keypair is None when no wallet was loaded.
SolanaClientAttributes ==
    [get_jupiter_quote |-> TRUE, token_decimals |-> FALSE, keypair |-> TRUE]

\* The clients the executor is given: a SolanaClient, with or without a
\* wallet, a client that has the token_decimals dict as well, and a client
\* without a get_jupiter_quote method.
Clients == [get_jupiter_quote : BOOLEAN, token_decimals : BOOLEAN, keypair : BOOLEAN]

\* how the network answers one execute_jupiter_swap call
SwapOutcomes ==
    {"decode_raises", "send_raises", "not_submitted", "not_confirmed",
     "confirm_raises", "confirmed"}

\* a swap that sends its transaction again when the first one did not land
SendTransactionRetried(outcome) ==
    IF outcome = "decode_raises" THEN 0
    ELSE IF outcome \in {"not_submitted", "not_confirmed"} THEN 2
    ELSE 1

\* the self.client.send_transaction calls of one execute_jupiter_swap call
SendTransactionCalls(outcome) == IF outcome = "decode_raises" THEN 0 ELSE 1

\* the dict execute_jupiter_swap returns
execute_jupiter_swap(outcome) ==
    CASE outcome = "confirmed" ->
           [success |-> TRUE, signature |-> "tx"]
      [] outcome = "not_confirmed" ->
           [success |-> FALSE, error |-> "Transaction failed to confirm", signature |-> "tx"]
      [] outcome = "not_submitted" ->
           [success |-> FALSE, error |-> "Failed to submit transaction", details |-> "response"]
      [] OTHER ->
           [success |-> FALSE, error |-> "Exception"]

\* how the network answers one buy_token or sell_token call: the Jupiter
\* quote fails, the swap instructions fail, or the swap runs (SwapOutcomes);
\* out is the outAmount of the quote.
SwapPaths == {"quote_fails", "instructions_fail"} \cup SwapOutcomes

\* SolanaClient.buy_token and SolanaClient.sell_token: the dict returned and
\* the transactions sent.  The two differ in the names of the amount keys.
SwapToken(mode, cl, amount, token_symbol, quote_token, net, amount_key) ==
    IF mode = "paper"
    THEN [result |-> [success |-> TRUE, signature |-> "paper-trading-simulated-tx",
                      token_symbol |-> token_symbol, amount |-> amount,
                      paper_trading |-> TRUE],
          submitted |-> 0, network |-> FALSE]
    ELSE IF ~cl.keypair
    THEN [result |-> [success |-> FALSE, error |-> "Client or keypair not initialized"],
          submitted |-> 0, network |-> FALSE]
    ELSE IF quote_token \notin token_addresses \/ token_symbol \notin token_addresses
    THEN [result |-> [success |-> FALSE, error |-> "Missing mint address"],
          submitted |-> 0, network |-> FALSE]
    ELSE IF net.path = "quote_fails"
    THEN [result |-> [success |-> FALSE, error |-> "Failed to get quote"],
          submitted |-> 0, network |-> TRUE]
    ELSE IF net.path = "instructions_fail"
    THEN [result |-> [success |-> FALSE,
                      error |-> "Failed to get swap instructions from Jupiter"],
          submitted |-> 0, network |-> TRUE]
    ELSE [result |-> RecordMerge(execute_jupiter_swap(net.path),
                                 (amount_key :> amount) @@
                                 [token_symbol |-> token_symbol,
                                  quote_token |-> quote_token,
                                  output_amount |-> net.out]),
          submitted |-> SendTransactionCalls(net.path), network |-> TRUE]

buy_token(mode, cl, amount_usd, token_symbol, quote_token, net) ==
    SwapToken(mode, cl, amount_usd, token_symbol, quote_token, net, "amount_requested")

sell_token(mode, cl, amount_token, token_symbol, quote_token, net) ==
    SwapToken(mode, cl, amount_token, token_symbol, quote_token, net, "amount_sold")

(***************************************************************************)
(* execute_arbitrage_trade and validate_quote_slippage                     *)
(***************************************************************************)
\* config['arbitrage']['max_exposure_percentage'] (the default)
max_exposure_percentage == 30
\* config['arbitrage']['max_slippage_pct'] (the default, 1.0 %)
max_slippage_pct == 1 * PctUnit
base_percentage == 10
\* min_trade_amount = 5, in cents
min_trade_amount == 5 * Cent
\* config['trading']['max_trade_size'], in cents: the $50 the trading-limit
\* scenario configures.  execute_arbitrage_trade does not read the key.
max_trade_size == 50 * Cent

\* the modes found in the repository's configurations
TradingModes == {"paper", "live", "mainnet"}

\* min(3.0, expected_profit / 2), in thousandths
confidence_factor(expected_profit) == Min2(3 * PctUnit, expected_profit \div 2)

\* min(self.max_exposure_percentage, base_percentage * confidence_factor)
trade_percentage(expected_profit) ==
    Min2(max_exposure_percentage * PctUnit,
         base_percentage * confidence_factor(expected_profit))

\* a sizing that leaves out the minimum trade amount
TradeAmountUnfloored(quote_balance, percentage) ==
    (quote_balance * percentage) \div (100 * PctUnit)

\* portfolio_value * (trade_percentage / 100), raised to min_trade_amount
TradeAmount(quote_balance, percentage) ==
    LET amount == (quote_balance * percentage) \div (100 * PctUnit)
    IN IF amount < min_trade_amount THEN min_trade_amount ELSE amount

\* trade_amount / buy_price, in thousandths of a base token
ExpectedBaseAmount(amount, buy_price) == (amount * Milli) \div buy_price

\* base_token_amount * sell_price, in cents
ExpectedQuoteAmount(base_amount, sell_price) == (base_amount * sell_price) \div Milli

\* effective_slippage > max_slippage_pct
ExceedsMaxSlippage(effective_slippage, max_pct) == effective_slippage > max_pct

\* validate_quote_slippage.  A quote is None ("none"), a reply without
\* 'data' ("nodata"), or a reply with data: outAmount and, perhaps,
\* priceImpactPct; "garbled" is data whose outAmount float() rejects.
validate_quote_slippage(quote_response, expected_output_amount, max_pct) ==
    IF quote_response.kind \in {"none", "nodata"}
    THEN [valid |-> FALSE, slippage_pct |-> 0, error |-> "Invalid quote response"]
    ELSE IF quote_response.kind = "garbled"
    THEN [valid |-> FALSE, slippage_pct |-> 0, error |-> "Error validating slippage"]
    ELSE LET data == quote_response.data
             output_amount == data.outAmount
         IN IF expected_output_amount <= 0 \/ output_amount <= 0
            THEN [valid |-> FALSE, slippage_pct |-> 0, error |-> "Invalid output amounts"]
            ELSE LET price_impact_pct ==
                         IF "priceImpactPct" \in DOMAIN data THEN data.priceImpactPct ELSE 0
                     actual_slippage_pct ==
                         ((expected_output_amount - output_amount) * 100 * PctUnit)
                             \div expected_output_amount
                     effective_slippage == Max2(actual_slippage_pct, price_impact_pct)
                 IN IF ExceedsMaxSlippage(effective_slippage, max_pct)
                    THEN [valid |-> FALSE, slippage_pct |-> effective_slippage,
                          error |-> "Excessive slippage"]
                    ELSE [valid |-> TRUE, slippage_pct |-> effective_slippage,
                          error |-> "None"]

\* an executor without the except clause of line 626: the exception of a
\* client call leaves the coroutine and no result dict is returned
ExceptionPropagates(token_pair) ==
    [raised |-> <<"str(e)", "">>, token_pair |-> token_pair]

\* An error message is a pair: the fixed text and the text put into it.
\* str(e) of an exception caught at line 626 is a text of its own.
ExceptionResult(token_pair) ==
    [success |-> FALSE, error |-> <<"str(e)", "">>, token_pair |-> token_pair]

\* what a step of the coroutine leaves: it returned r, or it awaits call c
Returned(tr, r) == [pc |-> "done", trade |-> tr, result |-> r, calls |-> <<>>]
Awaiting(tr, c) == [pc |-> c, trade |-> tr, result |-> NoResult, calls |-> <<c>>]

\* a slippage check that asks for the quote in every trading mode
ChecksQuoteInAnyMode(mode, cl) == cl.get_jupiter_quote

\* hasattr(solana_client, 'get_jupiter_quote') and trading_mode == 'mainnet'
ChecksQuote(mode, cl) == cl.get_jupiter_quote /\ mode = "mainnet"

\* a balance test that lets a balance of 0 through
NegativeBalance(b) == b.kind = "none" \/ b.value < 0

\* not quote_balance or quote_balance <= 0
InsufficientBalance(b) == b.kind = "none" \/ b.value <= 0

\* lines 437-519, after get_balance returned b
AfterGetBalance(tr, b, mode, cl) ==
    LET pair == tr.signal.token_pair
        tr1 == RecordMerge(tr, [quote_balance |-> b])
    IN IF b.kind = "raise" THEN Returned(tr, ExceptionResult(pair))
       ELSE IF InsufficientBalance(b)
       THEN Returned(tr1, [success |-> FALSE, error |-> <<"Insufficient balance", pair[2]>>])
       ELSE LET amount == TradeAmount(b.value, tr.trade_percentage)
                tr2 == RecordMerge(tr1, [trade_amount |-> amount])
            IN IF pair[1] \notin token_addresses \/ pair[2] \notin token_addresses
               THEN Returned(tr2, [success |-> FALSE,
                                   error |-> <<"Missing token mint addresses", "">>,
                                   token_pair |-> pair])
               ELSE IF ChecksQuote(mode, cl)
               THEN IF ~cl.token_decimals
                    THEN Returned(tr2, ExceptionResult(pair))
                    ELSE Awaiting(tr2, "buy_quote")
               ELSE Awaiting(tr2, "buy_token")

\* lines 495-519, after the buy-leg get_jupiter_quote returned q
AfterBuyQuote(tr, q) ==
    LET pair == tr.signal.token_pair
    IN IF q.kind = "raise" THEN Returned(tr, ExceptionResult(pair))
       ELSE LET sr == validate_quote_slippage(
                          q, ExpectedBaseAmount(tr.trade_amount, tr.signal.buy.price),
                          max_slippage_pct)
                tr2 == RecordMerge(tr, [buy_quote |-> q, buy_slippage |-> sr])
            IN IF ~sr.valid
               THEN Returned(tr2, [success |-> FALSE,
                                   error |-> <<"Excessive slippage detected", sr.error>>,
                                   slippage_pct |-> sr.slippage_pct,
                                   token_pair |-> pair])
               ELSE Awaiting(tr2, "buy_token")

\* a test of a leg's result that takes every returned dict for a success
LegReturned(leg_result) == TRUE

\* buy_result.get('success', False), sell_result.get('success', False)
LegSucceeded(leg_result) == "success" \in DOMAIN leg_result /\ leg_result.success

\* a sell leg that is fed the amount sized from trade_amount / buy_price
SizedBaseAmount(buy_result, amount, buy_price) == ExpectedBaseAmount(amount, buy_price)

\* buy_result.get('output_amount', trade_amount / buy_price)
BaseTokenAmount(buy_result, amount, buy_price) ==
    IF "output_amount" \in DOMAIN buy_result
    THEN buy_result.output_amount
    ELSE ExpectedBaseAmount(amount, buy_price)

\* lines 521-580, after buy_token returned buy_result (or raised)
AfterBuyToken(tr, raised, buy_result, mode, cl) ==
    LET pair == tr.signal.token_pair
    IN IF raised THEN Returned(tr, ExceptionResult(pair))
       ELSE LET tr2 == RecordMerge(tr, [buy_result |-> buy_result])
            IN IF ~LegSucceeded(buy_result)
               THEN Returned(tr2, [success |-> FALSE,
                                   error |-> <<"Buy transaction failed", buy_result.error>>,
                                   token_pair |-> pair,
                                   details |-> buy_result])
               ELSE LET base_token_amount ==
                            BaseTokenAmount(buy_result, tr.trade_amount, tr.signal.buy.price)
                        tr3 == RecordMerge(tr2, [base_token_amount |-> base_token_amount])
                    IN IF ChecksQuote(mode, cl)
                       THEN IF ~cl.token_decimals
                            THEN Returned(tr3, ExceptionResult(pair))
                            ELSE Awaiting(tr3, "sell_quote")
                       ELSE Awaiting(tr3, "sell_token")

\* lines 555-580, after the sell-leg get_jupiter_quote returned q
AfterSellQuote(tr, q) ==
    LET pair == tr.signal.token_pair
    IN IF q.kind = "raise" THEN Returned(tr, ExceptionResult(pair))
       ELSE LET sr == validate_quote_slippage(
                          q, ExpectedQuoteAmount(tr.base_token_amount, tr.signal.sell.price),
                          max_slippage_pct)
                tr2 == RecordMerge(tr, [sell_quote |-> q, sell_slippage |-> sr])
            IN IF ~sr.valid
               THEN Returned(tr2, [success |-> FALSE,
                                   error |-> <<"Excessive slippage on sell", sr.error>>,
                                   slippage_pct |-> sr.slippage_pct,
                                   token_pair |-> pair,
                                   buy_result |-> tr.buy_result])
               ELSE Awaiting(tr2, "sell_token")

\* a settlement that counts a trade that breaks even as a profit
IsProfitOrBreakeven(profit_amount) == profit_amount >= 0

\* profit_amount > 0
IsProfit(profit_amount) == profit_amount > 0

\* lines 592-624: the result of a trade whose two legs succeeded
Settle(tr, sell_result, mode) ==
    LET quote_token_received ==
            IF "output_amount" \in DOMAIN sell_result
            THEN sell_result.output_amount
            ELSE ExpectedQuoteAmount(tr.base_token_amount, tr.signal.sell.price)
        profit_amount == quote_token_received - tr.trade_amount
        profit_percentage == (profit_amount * 100 * PctUnit) \div tr.trade_amount
        r == [success |-> TRUE,
              token_pair |-> tr.signal.token_pair,
              buy_source |-> tr.signal.buy.source,
              sell_source |-> tr.signal.sell.source,
              trade_amount |-> tr.trade_amount,
              base_token_amount |-> tr.base_token_amount,
              quote_token_received |-> quote_token_received,
              realized_profit |-> profit_amount,
              realized_profit_percentage |-> profit_percentage,
              buy_transaction |-> tr.buy_result.signature,
              sell_transaction |-> sell_result.signature,
              trading_mode |-> mode]
    IN IF IsProfit(profit_amount) THEN r
       ELSE RecordMerge(r, [success |-> FALSE,
                            error |-> <<"Trade executed but resulted in loss", "">>])

\* lines 582-632, after sell_token returned sell_result (or raised)
AfterSellToken(tr, raised, sell_result, mode) ==
    LET pair == tr.signal.token_pair
    IN IF raised THEN Returned(tr, ExceptionResult(pair))
       ELSE LET tr2 == RecordMerge(tr, [sell_result |-> sell_result])
            IN IF ~LegSucceeded(sell_result)
               THEN Returned(tr2, [success |-> FALSE,
                                   error |-> <<"Sell transaction failed", sell_result.error>>,
                                   token_pair |-> pair,
                                   buy_result |-> tr.buy_result,
                                   details |-> sell_result])
               ELSE Returned(tr2, Settle(tr2, sell_result, mode))

(***************************************************************************)
(* Operations of the executor: one step per client call that returns       *)
(***************************************************************************)
\* the signals execute_arbitrage_trade is called with
TradeSignals ==
    { [action |-> "arbitrage", token_pair |-> <<"SOL", "USDC">>,
       buy |-> [source |-> "jupiter", price |-> 10000],
       sell |-> [source |-> "raydium", price |-> 10100],
       expected_profit |-> ep, confidence |-> Min2(100 * PctUnit, ep * 10)] :
           ep \in {600, 1200, 8000} }
    \cup
    { [action |-> "arbitrage", token_pair |-> <<"RAY", "USDC">>,
       buy |-> [source |-> "jupiter", price |-> 10000],
       sell |-> [source |-> "raydium", price |-> 10100],
       expected_profit |-> 1200, confidence |-> 12000],
      [action |-> "hold"] }

\* what get_balance gives: an exception, None, or an amount in cents
BalanceOutcomes ==
    {[kind |-> "raise"], [kind |-> "none"]}
      \cup {[kind |-> "value", value |-> v] : v \in {-100, 0, 300, 10000, 50000}}

\* How a venue answers get_jupiter_quote: the call raises, it gives None, a
\* reply without 'data', data that float() rejects, or data whose outAmount
\* is the spot-implied output, 5 % below it or 0, or the spot-implied output
\* with a price impact of 0.5 % or of 5 %.
QuoteKinds ==
    {"raise", "none", "nodata", "garbled", "exact", "below5", "zero",
     "impact_low", "impact_high"}

\* the reply of that kind when `expected` is the spot-implied output
QuoteReply(kind, expected) ==
    CASE kind = "exact" -> [kind |-> "data", data |-> [outAmount |-> expected]]
      [] kind = "below5" -> [kind |-> "data", data |-> [outAmount |-> (expected * 95) \div 100]]
      [] kind = "zero" -> [kind |-> "data", data |-> [outAmount |-> 0]]
      [] kind = "impact_low" ->
           [kind |-> "data", data |-> [outAmount |-> expected, priceImpactPct |-> 500]]
      [] kind = "impact_high" ->
           [kind |-> "data", data |-> [outAmount |-> expected, priceImpactPct |-> 5000]]
      [] OTHER -> [kind |-> kind]

\* how a swap call ends: it raises, or the network answers along a path
SwapAnswers(outs) ==
    {[path |-> "raise", out |-> 0]} \cup [path : SwapPaths, out : outs]

\* How the buy_token call ends.  buy_token asks the venue for the quote of
\* the buy leg itself (solana_client.py line 471): a venue that gives no
\* quote for the leg gives none to buy_token either.
BuySwapAnswers(quote_kind, outs) ==
    IF quote_kind = "none" THEN {[path |-> "quote_fails", out |-> 0]}
    ELSE IF quote_kind = "raise"
    THEN {[path |-> "raise", out |-> 0], [path |-> "quote_fails", out |-> 0]}
    ELSE SwapAnswers(outs)

Step(next) ==
    /\ pc' = next.pc
    /\ trade' = next.trade
    /\ result' = next.result
    /\ calls' = calls \o next.calls

\* lines 397-437: the call, up to its first await
ExecuteArbitrageTrade(sig) ==
    /\ pc = "idle"
    /\ IF sig.action # "arbitrage"
       THEN Step(Returned(trade, [success |-> FALSE, error |-> <<"Invalid signal action", "">>]))
       ELSE Step(Awaiting([signal |-> sig,
                           trade_percentage |-> trade_percentage(sig.expected_profit)],
                          "get_balance"))
    /\ last_op' = "execute_arbitrage_trade"
    /\ UNCHANGED <<submissions, network, detector_vars, min_profit_percentage, stats_vars,
                   config_vars, report_vars, delivered, feed_vars, bot_vars, now>>

GetBalanceReturns(b) ==
    /\ pc = "get_balance"
    /\ Step(AfterGetBalance(trade, b, trading_mode, client))
    /\ last_op' = "get_balance"
    \* get_balance sends RPC requests for the SOL balance of a live wallet only
    /\ network' = (network \/ (trading_mode # "paper" /\ trade.signal.token_pair[2] = "SOL"))
    /\ UNCHANGED <<submissions, detector_vars, min_profit_percentage, stats_vars,
                   config_vars, report_vars, delivered, feed_vars, bot_vars, now>>

BuyQuoteReturns ==
    /\ pc = "buy_quote"
    /\ Step(AfterBuyQuote(trade,
                          QuoteReply(venue_quote,
                                     ExpectedBaseAmount(trade.trade_amount,
                                                        trade.signal.buy.price))))
    /\ last_op' = "get_jupiter_quote"
    /\ network' = TRUE
    /\ UNCHANGED <<submissions, detector_vars, min_profit_percentage, stats_vars,
                   config_vars, report_vars, delivered, feed_vars, bot_vars, now>>

BuyTokenReturns ==
    /\ pc = "buy_token"
    /\ LET expected == ExpectedBaseAmount(trade.trade_amount, trade.signal.buy.price)
       IN \E net \in BuySwapAnswers(venue_quote, {expected, expected \div 2}) :
            LET r == buy_token(trading_mode, client, trade.trade_amount,
                               trade.signal.token_pair[1], trade.signal.token_pair[2], net)
            IN IF net.path = "raise"
               THEN /\ Step(AfterBuyToken(trade, TRUE, NoResult, trading_mode, client))
                    /\ UNCHANGED submissions
                    /\ network' = (network \/ trading_mode # "paper")
               ELSE /\ Step(AfterBuyToken(trade, FALSE, r.result, trading_mode, client))
                    /\ submissions' = [submissions EXCEPT !.buy = @ + r.submitted]
                    /\ network' = (network \/ r.network)
    /\ last_op' = "buy_token"
    /\ UNCHANGED <<detector_vars, min_profit_percentage, stats_vars, config_vars, report_vars, delivered, feed_vars, bot_vars, now>>

SellQuoteReturns ==
    /\ pc = "sell_quote"
    /\ \E kind \in QuoteKinds :
           Step(AfterSellQuote(trade,
                               QuoteReply(kind,
                                          ExpectedQuoteAmount(trade.base_token_amount,
                                                              trade.signal.sell.price))))
    /\ last_op' = "get_jupiter_quote"
    /\ network' = TRUE
    /\ UNCHANGED <<submissions, detector_vars, min_profit_percentage, stats_vars,
                   config_vars, report_vars, delivered, feed_vars, bot_vars, now>>

SellTokenReturns ==
    /\ pc = "sell_token"
    /\ LET expected == ExpectedQuoteAmount(trade.base_token_amount, trade.signal.sell.price)
       IN \E net \in SwapAnswers({expected, trade.trade_amount, trade.trade_amount - 100}) :
            LET r == sell_token(trading_mode, client, trade.base_token_amount,
                                trade.signal.token_pair[1], trade.signal.token_pair[2], net)
            IN IF net.path = "raise"
               THEN /\ Step(AfterSellToken(trade, TRUE, NoResult, trading_mode))
                    /\ UNCHANGED submissions
                    /\ network' = (network \/ trading_mode # "paper")
               ELSE /\ Step(AfterSellToken(trade, FALSE, r.result, trading_mode))
                    /\ submissions' = [submissions EXCEPT !.sell = @ + r.submitted]
                    /\ network' = (network \/ r.network)
    /\ last_op' = "sell_token"
    /\ UNCHANGED <<detector_vars, min_profit_percentage, stats_vars, config_vars, report_vars, delivered, feed_vars, bot_vars, now>>

(***************************************************************************)
(* on_trade_executed                                                       *)
(***************************************************************************)
\* dict.get(key, default)
Get(d, key, default) == IF key \in DOMAIN d THEN d[key] ELSE default

\* the token pair 'Unknown'
UnknownPair == <<"Unknown">>

\* self.min_profit_percentage *= 1.05
Tighten(threshold) == (threshold * 105) \div 100

\* the record appended for a successful trade (lines 311-322)
SuccessRecord(trade_result) ==
    [token_pair |-> Get(trade_result, "token_pair", UnknownPair),
     profit |-> trade_result.realized_profit,
     success |-> TRUE,
     buy_source |-> Get(trade_result, "buy_source", "Unknown"),
     sell_source |-> Get(trade_result, "sell_source", "Unknown"),
     trade_amount |-> Get(trade_result, "trade_amount", 0),
     realized_profit |-> trade_result.realized_profit,
     buy_price |-> Get(trade_result, "buy_price", 0),
     sell_price |-> Get(trade_result, "sell_price", 0)]

\* the record appended for a failed trade (lines 330-341)
FailureRecord(trade_result) ==
    [token_pair |-> Get(trade_result, "token_pair", UnknownPair),
     error |-> Get(trade_result, "error", <<"Unknown error", "">>),
     success |-> FALSE,
     buy_source |-> Get(trade_result, "buy_source", "Unknown"),
     sell_source |-> Get(trade_result, "sell_source", "Unknown"),
     trade_amount |-> Get(trade_result, "trade_amount", 0),
     realized_profit |-> 0,
     buy_price |-> Get(trade_result, "buy_price", 0),
     sell_price |-> Get(trade_result, "sell_price", 0)]

\* the trade results the orchestrator passes on: a profit, a loss, a failed
\* buy, a success without realized_profit, a dict without 'success', {}
TradeResults ==
    { [success |-> TRUE, token_pair |-> <<"SOL", "USDC">>, buy_source |-> "jupiter",
       sell_source |-> "raydium", trade_amount |-> 600, realized_profit |-> 6],
      [success |-> FALSE, error |-> <<"Trade executed but resulted in loss", "">>,
       token_pair |-> <<"SOL", "USDC">>, buy_source |-> "jupiter",
       sell_source |-> "raydium", trade_amount |-> 600, realized_profit |-> -6],
      [success |-> FALSE, error |-> <<"Buy transaction failed", "Failed to get quote">>,
       token_pair |-> <<"SOL", "USDC">>],
      [success |-> TRUE],
      [error |-> <<"str(e)", "">>],
      EmptyDict }

\* the call report_trade_error(formatted_error, trade_details={...}) made for
\* a failure record, and whether it raised
ReportCall(trade_record, raised) ==
    [error_message |-> <<"Failed trade", trade_record.token_pair, trade_record.error>>,
     trade_details |-> [pair |-> trade_record.token_pair,
                        amount |-> trade_record.trade_amount,
                        buy_source |-> trade_record.buy_source,
                        sell_source |-> trade_record.sell_source],
     raised |-> raised]

FailedResults == {r \in TradeResults : "success" \in DOMAIN r /\ ~r.success}

\* the body of on_trade_executed
on_trade_executed(trade_result) ==
    IF trade_result = EmptyDict \/ "success" \notin DOMAIN trade_result
    THEN UNCHANGED <<stats_vars, min_profit_percentage, reports>>
    ELSE /\ trades_executed' = trades_executed + 1
         /\ IF trade_result.success
            THEN /\ successful_trades' = successful_trades + 1
                 /\ IF "realized_profit" \in DOMAIN trade_result
                    THEN /\ total_profit' = total_profit + trade_result.realized_profit
                         /\ trade_history' = Append(trade_history, SuccessRecord(trade_result))
                    ELSE UNCHANGED <<total_profit, trade_history>>
                 /\ UNCHANGED <<min_profit_percentage, reports>>
            ELSE /\ trade_history' = Append(trade_history, FailureRecord(trade_result))
                 /\ IF trading_bot # "None"
                    THEN \E raised \in BOOLEAN :
                            reports' = Append(reports, ReportCall(FailureRecord(trade_result), raised))
                    ELSE UNCHANGED reports
                 /\ min_profit_percentage' = Tighten(min_profit_percentage)
                 /\ UNCHANGED <<successful_trades, total_profit>>

OnTradeExecuted(trade_result) ==
    /\ trades_executed < MaxTrades
    /\ min_profit_percentage <= MaxThreshold
    /\ Len(reports) < MaxReports
    /\ on_trade_executed(trade_result)
    /\ last_op' = "on_trade_executed"
    /\ UNCHANGED <<detector_vars, config_vars, trading_bot, delivered, feed_vars, bot_vars, executor_vars, now>>

\* ArbitrageStrategy.__init__
InitStrategy ==
    /\ price_history = EmptyDict
    /\ last_arbitrage = EmptyDict
    \* the configured values, in PctUnit (0.5 % is the default)
    /\ min_profit_percentage \in {0, 500}
    /\ total_profit = 0
    /\ trades_executed = 0
    /\ successful_trades = 0
    /\ trade_history = <<>>
    /\ now = 0
    /\ signal = NoSignal
    /\ last_op = "init"
    /\ delivered = [source \in {"jupiter", "raydium"} |-> 0]
    /\ reports = <<>>

\* no execute_arbitrage_trade call has been made
InitExecutor ==
    /\ pc = "idle"
    /\ trade = NoTrade
    /\ result = NoResult
    /\ calls = <<>>
    /\ submissions = [buy |-> 0, sell |-> 0]
    /\ network = FALSE

\* ArbitrageBot.__init__, PriceFeedManager.__init__: nothing started
InitBotState ==
    /\ running = FALSE
    /\ should_stop = FALSE
    /\ main_loops = 0
    /\ feed_running = FALSE
    /\ feed_loops = 0
    /\ callbacks = 0
    /\ client_closed = FALSE
    /\ tick_tasks = <<>>
    /\ in_flight = 0
    /\ current_price = None
    /\ last_update = NoTime
    /\ dex_prices = <<>>
    /\ got = None

InitDetector ==
    /\ InitStrategy
    /\ InitExecutor
    /\ InitBotState
    /\ trading_mode = "paper"
    /\ client = SolanaClientAttributes
    /\ venue_quote = "exact"
    /\ configured_sources = price_sources
    /\ trading_bot = "ArbitrageBot"

NextDetector ==
    \/ \E price_data \in PriceInputs : UpdatePrices(price_data)
    \/ DetectOpportunities
    \/ Tick
    \/ Reset

SpecDetector == InitDetector /\ [][NextDetector]_vars

InitTrade ==
    /\ InitStrategy
    /\ InitExecutor
    /\ InitBotState
    /\ trading_mode \in TradingModes
    /\ client \in Clients
    /\ venue_quote \in QuoteKinds
    /\ configured_sources = price_sources
    /\ trading_bot = "ArbitrageBot"

NextExecutor ==
    \/ \E sig \in TradeSignals : ExecuteArbitrageTrade(sig)
    \/ \E b \in BalanceOutcomes : GetBalanceReturns(b)
    \/ BuyQuoteReturns
    \/ BuyTokenReturns
    \/ SellQuoteReturns
    \/ SellTokenReturns

SpecExecutor == InitTrade /\ [][NextExecutor]_vars

NextFeedback ==
    \/ \E trade_result \in TradeResults : OnTradeExecuted(trade_result)
    \/ Reset

\* the strategy as either orchestrator constructs it
InitFeedback ==
    /\ InitStrategy
    /\ InitExecutor
    /\ InitBotState
    /\ trading_mode = "paper"
    /\ client = SolanaClientAttributes
    /\ venue_quote = "exact"
    /\ configured_sources = price_sources
    \* main.py passes itself as trading_bot, arbitrage_bot.py passes nothing
    /\ trading_bot \in {"ArbitrageBot", "None"}

SpecFeedback == InitFeedback /\ [][NextFeedback]_vars

(***************************************************************************)
(* ArbitrageBot (main.py) and PriceFeedManager (core/price_feeds.py)       *)
(***************************************************************************)
\* at most MaxTasks on_price_update tasks are scheduled and not yet run
MaxTasks == 2
\* at most MaxInFlight handlers await execute_arbitrage_trade
MaxInFlight == 2
\* on_price_update is registered at most MaxCallbacks times
MaxCallbacks == 2
\* at most MaxLoops start() tasks are in the main loop
MaxLoops == 2

\* config['trading']['token_symbol'] (the default)
token_symbol == "SOL"

\* The price data fetch_dex_prices gives for one source: with and without
\* the token keys, with a price that is positive or negative, and without a
\* price (which on_price_update reads as 0).
FeedData ==
    { [source |-> "jupiter", token |-> "SOL", quote_token |-> "USDC", price |-> v] :
          v \in {10000, -100} }
      \cup { [source |-> "raydium", price |-> 10100],
             [source |-> "jupiter", token |-> "SOL", quote_token |-> "USDC"] }

\* formatted_data of on_price_update
FormatPriceData(price_data) ==
    [source |-> Get(price_data, "source", "unknown"),
     token_pair |-> <<Get(price_data, "token", token_symbol),
                      Get(price_data, "quote_token", "USDC")>>,
     price |-> Get(price_data, "price", 0)]

\* a price test that lets a price of 0 through
NonNegativePrice(price) == price >= 0

\* not (formatted_data['price'] <= 0)
ValidPrice(price) == ~(price <= 0)

\* the scheduled on_price_update tasks that will append to the history of key
QueuedFor(key) ==
    Cardinality({i \in 1..Len(tick_tasks) :
                    LET f == FormatPriceData(tick_tasks[i])
                    IN <<f.source, f.token_pair>> = key /\ ValidPrice(f.price)})

\* ArbitrageBot.stop up to its await of solana_client.close()
StopBegins ==
    IF ~running
    THEN UNCHANGED <<running, should_stop, feed_running>>
    ELSE /\ running' = FALSE
         /\ should_stop' = TRUE
         /\ feed_running' = FALSE

\* request_start / start_trading: ArbitrageBot.start up to its main loop
StartBot ==
    /\ main_loops < MaxLoops
    /\ callbacks < MaxCallbacks
    /\ IF running
       THEN UNCHANGED <<running, main_loops, feed_running, feed_loops, callbacks, last_op>>
       ELSE /\ running' = TRUE
            /\ feed_running' = TRUE
            /\ feed_loops' = IF feed_running THEN feed_loops ELSE feed_loops + 1
            /\ callbacks' = callbacks + 1
            /\ main_loops' = main_loops + 1
            /\ last_op' = "start"
    /\ UNCHANGED <<should_stop, client_closed, tick_tasks, in_flight, detector_vars,
                   min_profit_percentage, stats_vars, config_vars, report_vars, delivered, feed_vars, executor_vars, now>>

\* request_stop / stop_trading
RequestStop ==
    /\ IF running
       THEN running' = FALSE /\ last_op' = "request_stop"
       ELSE UNCHANGED <<running, last_op>>
    /\ UNCHANGED <<should_stop, main_loops, feed_running, feed_loops, callbacks,
                   client_closed, tick_tasks, in_flight, detector_vars,
                   min_profit_percentage, stats_vars, config_vars, report_vars, delivered, feed_vars, executor_vars, now>>

\* One round of the main loop of start(): after the sleep the status
\* callback is called, which may raise, and the loop condition is tested;
\* when the loop is left, stop() is awaited.
MainLoopStep(status_callback_raises) ==
    /\ main_loops > 0
    /\ IF ~status_callback_raises /\ running /\ ~should_stop
       THEN UNCHANGED <<running, should_stop, main_loops, feed_running, last_op>>
       ELSE /\ main_loops' = main_loops - 1
            /\ StopBegins
            /\ last_op' = "main_loop left"
    /\ UNCHANGED <<feed_loops, callbacks, client_closed, tick_tasks, in_flight,
                   detector_vars, min_profit_percentage, stats_vars, config_vars, report_vars, delivered, feed_vars,
                   executor_vars, now>>

\* ArbitrageBot.stop after solana_client.close() returned
StopFinishes ==
    /\ should_stop
    /\ client_closed' = TRUE
    /\ should_stop' = FALSE
    /\ last_op' = "stop"
    /\ UNCHANGED <<running, main_loops, feed_running, feed_loops, callbacks, tick_tasks,
                   in_flight, detector_vars, min_profit_percentage, stats_vars,
                   config_vars, report_vars, delivered, feed_vars, executor_vars, now>>

\* One round of _rest_price_loop: the loop ends when _running is false;
\* otherwise the prices are fetched and _emit_price_update creates one
\* on_price_update task for each registered callback.
RestPriceLoop(price_data) ==
    /\ feed_loops > 0
    /\ IF ~feed_running
       THEN /\ feed_loops' = feed_loops - 1
            /\ UNCHANGED tick_tasks
       ELSE /\ Len(tick_tasks) + callbacks <= MaxTasks
            /\ LET f == FormatPriceData(price_data)
                   key == <<f.source, f.token_pair>>
               IN ValidPrice(f.price) =>
                    Len(HistoryOf(price_history, key)) + QueuedFor(key) + callbacks <= MaxSamples
            /\ tick_tasks' = tick_tasks \o [i \in 1..callbacks |-> price_data]
            /\ UNCHANGED feed_loops
    /\ last_op' = "rest_price_loop"
    /\ UNCHANGED <<running, should_stop, main_loops, feed_running, callbacks, client_closed,
                   in_flight, detector_vars, min_profit_percentage, stats_vars,
                   config_vars, report_vars, delivered, feed_vars, executor_vars, now>>

\* ArbitrageBot.on_price_update, up to its await of execute_arbitrage_trade
OnPriceUpdate ==
    /\ tick_tasks # <<>>
    /\ tick_tasks' = Tail(tick_tasks)
    /\ LET formatted_data == FormatPriceData(Head(tick_tasks))
       IN IF ~ValidPrice(formatted_data.price)
          THEN /\ last_op' = "on_price_update skipped"
               /\ UNCHANGED <<detector_vars, in_flight>>
          ELSE LET ph == update_prices(price_history, formatted_data)
                   scan == ScanPairs(1, ph, min_profit_percentage, now, <<>>, last_arbitrage)
                   sig == IF scan.opportunities # <<>>
                          THEN MakeSignal(BestOpportunity(scan.opportunities))
                          ELSE NoSignal
               IN /\ sig # NoSignal => in_flight < MaxInFlight
                  /\ price_history' = ph
                  /\ last_arbitrage' = scan.last_arbitrage
                  /\ signal' = sig
                  /\ in_flight' = IF sig # NoSignal THEN in_flight + 1 ELSE in_flight
                  /\ last_op' = "on_price_update"
    /\ UNCHANGED <<running, should_stop, main_loops, feed_running, feed_loops, callbacks,
                   client_closed, min_profit_percentage, stats_vars, config_vars, report_vars, delivered, feed_vars,
                   executor_vars, now>>

\* what execute_arbitrage_trade gave the handler: a profit, or an exception,
\* which the handler turns into a result
HandlerResults ==
    {r \in TradeResults : "success" \in DOMAIN r /\ r.success /\ "realized_profit" \in DOMAIN r}
      \cup {[success |-> FALSE, error |-> <<"Exception", "str(e)">>]}

\* ArbitrageBot.on_price_update after execute_arbitrage_trade returned
TradeReturns(trade_result) ==
    /\ in_flight > 0
    /\ trades_executed < MaxTrades
    /\ min_profit_percentage <= MaxThreshold
    /\ in_flight' = in_flight - 1
    /\ on_trade_executed(trade_result)
    /\ last_op' = "on_trade_executed"
    /\ UNCHANGED <<running, should_stop, main_loops, feed_running, feed_loops, callbacks,
                   client_closed, tick_tasks, detector_vars, config_vars, trading_bot, delivered,
                   feed_vars, executor_vars, now>>

\* time passes while the bot runs
BotTick ==
    /\ now < MaxTime
    /\ now' = now + 1
    /\ last_op' = "tick"
    /\ UNCHANGED <<detector_vars, min_profit_percentage, stats_vars, config_vars, report_vars, delivered, feed_vars,
                   executor_vars, bot_vars>>

NextBot ==
    \/ StartBot
    \/ RequestStop
    \/ \E status_callback_raises \in BOOLEAN : MainLoopStep(status_callback_raises)
    \/ StopFinishes
    \/ \E price_data \in FeedData : RestPriceLoop(price_data)
    \/ OnPriceUpdate
    \/ \E trade_result \in HandlerResults : TradeReturns(trade_result)
    \/ BotTick

SpecBot == InitDetector /\ [][NextBot]_vars

\* every task that can run is run in the end
SpecBotFair ==
    /\ SpecBot
    /\ WF_vars(\E status_callback_raises \in BOOLEAN : MainLoopStep(status_callback_raises))
    /\ WF_vars(StopFinishes)
    /\ WF_vars(\E price_data \in FeedData : RestPriceLoop(price_data))
    /\ WF_vars(OnPriceUpdate)

(***************************************************************************)
(* A long run of update_prices calls                                       *)
(***************************************************************************)
\* each source delivers at most MaxAppends samples for the pair
MaxAppends == 102

\* update_prices with the next sample of a source whose price for SOL/USDC
\* rises by one cent with every sample: the n-th sample has the price n
UpdatePricesInOrder(source) ==
    /\ delivered[source] < MaxAppends
    /\ delivered' = [delivered EXCEPT ![source] = @ + 1]
    /\ price_history' =
           update_prices(price_history,
                         [source |-> source, token_pair |-> <<"SOL", "USDC">>,
                          price |-> delivered[source] + 1])
    /\ last_op' = "update_prices"
    /\ UNCHANGED <<last_arbitrage, signal, min_profit_percentage, stats_vars, config_vars, report_vars, feed_vars,
                   bot_vars, executor_vars, now>>

NextHistory == \E source \in {"jupiter", "raydium"} : UpdatePricesInOrder(source)

SpecHistory == InitDetector /\ [][NextHistory]_vars

(***************************************************************************)
(* The detector on two mirrored pairs with the same cost model: jupiter    *)
(* shows 100.00 and raydium 100.30 or 101.00 on each of them               *)
(***************************************************************************)
SpreadPairs == {<<"SOL", "USDC">>, <<"USDC", "SOL">>}
SpreadPrices(source) == IF source = "jupiter" THEN {10000} ELSE {10030, 10100}

SpreadInputs ==
    UNION { [source : {s}, token_pair : SpreadPairs, price : SpreadPrices(s)] :
              s \in {"jupiter", "raydium"} }

NextSpread ==
    \/ \E price_data \in SpreadInputs : UpdatePrices(price_data)
    \/ DetectOpportunities
    \/ Tick

SpecSpread == InitDetector /\ [][NextSpread]_vars

(***************************************************************************)
(* The price feed (core/price_feeds.py, core/fetch_dex_prices.py)          *)
(***************************************************************************)
\* config['price_feeds']['update_interval'] (default 10), configured to 2 clock ticks
update_interval == 2
\* config['price_feeds']['sources'] (the default)
sources == <<"binance", "coinbase">>

\* the clock of the feed stops at MaxFeedTime
MaxFeedTime == 5
\* at most MaxFeedLoops _rest_price_loop tasks exist
MaxFeedLoops == 2
\* at most MaxFeedCallbacks callbacks are registered with the feed
MaxFeedCallbacks == 2

\* How the APIs answer during one _fetch_rest_prices call, for each source:
\* a price ("price"); no price, because of an HTTP error, a timeout or a
\* malformed reply that the fetch of the source catches ("none"); or an
\* exception that leaves the fetch of the source ("raise").
FetchOutcomes ==
    [jupiter : {"price", "none"}, raydium : {"price", "none", "raise"},
     binance : {"price", "none", "raise"}, coinbase : {"price", "none"}]

\* the price an API gives for a source, in cents
ApiPrice(source) ==
    CASE source = "jupiter"  -> 10000
      [] source = "raydium"  -> 10100
      [] source = "binance"  -> 10050
      [] source = "coinbase" -> 10060
      [] source = "orca"     -> 10020
      [] OTHER               -> 10000

\* dex_offsets.get(source, 0), in hundredths of a percent
DexOffset(source) ==
    CASE source = "raydium"  -> 0 - 15
      [] source = "orca"     -> 0 - 20
      [] source = "openbook" -> 30
      [] source = "meteora"  -> 0 - 10
      [] source = "phoenix"  -> 25
      [] OTHER               -> 0

\* fetch_dex_price for a source other than jupiter: the price of the API of
\* the source, else the reference price with the offset of the source, else
\* None; reference_price 0 stands for None
fetch_dex_price(source, outcome, reference_price) ==
    IF outcome = "raise" THEN [kind |-> "raise"]
    ELSE IF outcome = "price" THEN [kind |-> "price", price |-> ApiPrice(source)]
    ELSE IF reference_price # 0
    THEN [kind |-> "price",
          price |-> reference_price + (reference_price * DexOffset(source)) \div 10000]
    ELSE [kind |-> "none"]

\* dex_prices[source] = sample on a dict kept as the list of its values
PutSample(samples, sample) ==
    IF \E i \in 1..Len(samples) : samples[i].source = sample.source
    THEN [i \in 1..Len(samples) |->
             IF samples[i].source = sample.source THEN sample ELSE samples[i]]
    ELSE Append(samples, sample)

\* the sources fetch_all_dex_prices gathers after jupiter
OtherSources == SelectSeq(configured_sources, LAMBDA s : s # "jupiter")

\* the source a gathered result is filed under
SourceOfResult(i) ==
    IF i + 1 <= Len(configured_sources) THEN configured_sources[i + 1] ELSE configured_sources[i]

\* asyncio.gather(*tasks, return_exceptions=True)
Gather(outcomes, reference_price) ==
    [i \in 1..Len(OtherSources) |->
        fetch_dex_price(OtherSources[i], outcomes[OtherSources[i]], reference_price)]

\* a loop over the gathered results that gives up every sample, that of
\* jupiter included, when one of the results is an exception
RECURSIVE ProcessUnlessException(_, _, _)
ProcessUnlessException(i, results, samples) ==
    IF \E j \in 1..Len(results) : results[j].kind = "raise" THEN <<>>
    ELSE IF i > Len(results) THEN samples
    ELSE IF results[i].kind # "price" THEN ProcessUnlessException(i + 1, results, samples)
    ELSE ProcessUnlessException(i + 1, results,
                                Append(samples, [source |-> configured_sources[i + 1],
                                                 token_pair |-> <<token_symbol, "USDC">>,
                                                 price |-> results[i].price]))

\* the loop over the gathered results from index i on
RECURSIVE ProcessResults(_, _, _)
ProcessResults(i, results, samples) ==
    IF i > Len(results) THEN samples
    ELSE IF results[i].kind # "price" THEN ProcessResults(i + 1, results, samples)
    ELSE ProcessResults(i + 1, results,
                        PutSample(samples, [source |-> SourceOfResult(i),
                                            token_pair |-> <<token_symbol, "USDC">>,
                                            price |-> results[i].price]))

\* fetch_all_dex_prices: the values of the dict it returns, in insertion order
fetch_all_dex_prices(outcomes) ==
    LET has_jupiter == \E i \in 1..Len(configured_sources) : configured_sources[i] = "jupiter"
        reference_price ==
            IF has_jupiter /\ outcomes.jupiter = "price" THEN ApiPrice("jupiter") ELSE 0
        first == IF reference_price # 0
                 THEN << [source |-> "jupiter", token_pair |-> <<token_symbol, "USDC">>,
                          price |-> reference_price] >>
                 ELSE <<>>
    IN ProcessResults(1, Gather(outcomes, reference_price), first)

\* an emission that creates a task for the first callback only
RECURSIVE EmitToFirst(_, _, _)
EmitToFirst(tasks, samples, n) ==
    IF samples = <<>> \/ n = 0 THEN tasks
    ELSE EmitToFirst(Append(tasks, Head(samples)), Tail(samples), n)

\* _emit_price_update for each sample in turn: one task for each callback
RECURSIVE EmitAll(_, _, _)
EmitAll(tasks, samples, n) ==
    IF samples = <<>> THEN tasks
    ELSE EmitAll(tasks \o [i \in 1..n |-> Head(samples)], Tail(samples), n)

\* the `prices` list of _fetch_rest_prices: the backup sources that gave a price
BackupPrices(outcomes) ==
    LET answered == SelectSeq(sources, LAMBDA s : outcomes[s] = "price")
    IN [i \in 1..Len(answered) |-> [price |-> ApiPrice(answered[i]), source |-> answered[i]]]

\* _select_best_price on a list that is not empty
select_best_price(prices) ==
    LET preferred == SelectSeq(sources,
                               LAMBDA s : \E i \in 1..Len(prices) : prices[i].source = s)
    IN IF preferred = <<>> THEN prices[1]
       ELSE prices[CHOOSE i \in 1..Len(prices) : prices[i].source = preferred[1]]

\* _fetch_rest_prices at time t: the tasks, the cache and the last dex prices
fetch_rest_prices(outcomes, t) ==
    LET dex == fetch_all_dex_prices(outcomes)
        prices == BackupPrices(outcomes)
    IN [tick_tasks |-> EmitAll(tick_tasks, dex, callbacks),
        dex_prices |-> dex,
        current_price |-> IF prices # <<>> THEN select_best_price(prices) ELSE current_price,
        last_update |-> IF prices # <<>> THEN t ELSE last_update,
        updated |-> prices # <<>>]

\* the tasks created fit the bound on the queue
FetchFits(f) == Len(f.tick_tasks) <= MaxTasks

\* `got` after a fetch outside get_current_price: a sample that arrives
\* ends the quiet time after the last get_current_price call
Disturbed(g, updated) == IF g # None /\ updated THEN [g EXCEPT !.quiet = FALSE] ELSE g

\* a test of the cache that takes a sample for recent for one interval only
RecentForOneInterval(cached, updated, t) ==
    cached # None /\ updated # NoTime /\ t - updated < update_interval

\* self._current_price and self._last_update and age < update_interval * 2
IsRecent(cached, updated, t) ==
    cached # None /\ updated # NoTime /\ t - updated < update_interval * 2

\* a start() that does not look at _running
NeverRunning(is_running) == FALSE

\* if self._running: return
AlreadyRunning(is_running) == is_running

\* PriceFeedManager.start
FeedStart ==
    /\ IF AlreadyRunning(feed_running)
       THEN /\ last_op' = "feed_start returned"
            /\ UNCHANGED <<feed_running, feed_loops>>
       ELSE /\ feed_loops < MaxFeedLoops
            /\ feed_running' = TRUE
            /\ feed_loops' = feed_loops + 1
            /\ last_op' = "feed_start"
    /\ UNCHANGED <<running, should_stop, main_loops, callbacks, client_closed, tick_tasks,
                   in_flight, detector_vars, min_profit_percentage, stats_vars,
                   config_vars, report_vars, delivered, feed_vars, executor_vars, now>>

\* PriceFeedManager.stop (no websocket connection is ever opened)
FeedStop ==
    /\ feed_running' = FALSE
    /\ last_op' = "feed_stop"
    /\ UNCHANGED <<running, should_stop, main_loops, feed_loops, callbacks, client_closed,
                   tick_tasks, in_flight, detector_vars, min_profit_percentage, stats_vars,
                   config_vars, report_vars, delivered, feed_vars, executor_vars, now>>

\* PriceFeedManager.add_callback
AddCallback ==
    /\ callbacks < MaxFeedCallbacks
    /\ callbacks' = callbacks + 1
    /\ last_op' = "add_callback"
    /\ UNCHANGED <<running, should_stop, main_loops, feed_running, feed_loops,
                   client_closed, tick_tasks, in_flight, detector_vars,
                   min_profit_percentage, stats_vars, config_vars, report_vars, delivered, feed_vars,
                   executor_vars, now>>

\* One round of _rest_price_loop with the fetch spelled out: the loop ends
\* when _running is false, otherwise _fetch_rest_prices runs.  An exception
\* of a source is caught where it is raised, so the round always ends in
\* the sleep that precedes the next one.
RestPriceLoopFetch(outcomes) ==
    /\ feed_loops > 0
    /\ IF ~feed_running
       THEN /\ feed_loops' = feed_loops - 1
            /\ last_op' = "rest_price_loop ended"
            /\ UNCHANGED <<tick_tasks, feed_vars>>
       ELSE LET f == fetch_rest_prices(outcomes, now)
            IN /\ FetchFits(f)
               /\ tick_tasks' = f.tick_tasks
               /\ dex_prices' = f.dex_prices
               /\ current_price' = f.current_price
               /\ last_update' = f.last_update
               /\ got' = Disturbed(got, f.updated)
               /\ last_op' = "fetch_rest_prices"
               /\ UNCHANGED feed_loops
    /\ UNCHANGED <<running, should_stop, main_loops, feed_running, callbacks, client_closed,
                   in_flight, detector_vars, min_profit_percentage, stats_vars,
                   config_vars, report_vars, delivered, executor_vars, now>>

\* The value of the call before, when this call comes less than one
\* update_interval after it and no sample arrived since it returned (nor,
\* when updated, during this call): <<value>>, and <<>> otherwise.
Repeats(g, t, updated) ==
    IF g # None /\ g.quiet /\ t - g.at < update_interval /\ ~updated
    THEN <<g.value>> ELSE <<>>

\* PriceFeedManager.get_current_price; `got` keeps what it returned, whether
\* it fetched, the time of the call and the age of the sample returned
GetCurrentPrice(outcomes) ==
    /\ IF IsRecent(current_price, last_update, now)
       THEN /\ got' = [value |-> current_price, fetched |-> FALSE, at |-> now,
                       age |-> now - last_update, quiet |-> TRUE,
                       repeats |-> Repeats(got, now, FALSE)]
            /\ UNCHANGED <<tick_tasks, current_price, last_update, dex_prices>>
       ELSE LET f == fetch_rest_prices(outcomes, now)
            IN /\ FetchFits(f)
               /\ tick_tasks' = f.tick_tasks
               /\ dex_prices' = f.dex_prices
               /\ current_price' = f.current_price
               /\ last_update' = f.last_update
               /\ got' = [value |-> f.current_price, fetched |-> TRUE, at |-> now,
                          age |-> now - f.last_update, quiet |-> TRUE,
                          repeats |-> Repeats(got, now, f.updated)]
    /\ last_op' = "get_current_price"
    /\ UNCHANGED <<running, should_stop, main_loops, feed_running, feed_loops, callbacks,
                   client_closed, in_flight, detector_vars, min_profit_percentage,
                   stats_vars, config_vars, report_vars, delivered, executor_vars, now>>

\* a task that _emit_price_update created runs its callback, which may raise
CallbackRuns(raises) ==
    /\ tick_tasks # <<>>
    /\ tick_tasks' = Tail(tick_tasks)
    /\ last_op' = IF raises THEN "callback raised" ELSE "callback returned"
    /\ UNCHANGED <<running, should_stop, main_loops, feed_running, feed_loops, callbacks,
                   client_closed, in_flight, detector_vars, min_profit_percentage,
                   stats_vars, config_vars, report_vars, delivered, feed_vars, executor_vars, now>>

\* time passes
FeedClock ==
    /\ now < MaxFeedTime
    /\ now' = now + 1
    /\ last_op' = "tick"
    /\ UNCHANGED <<detector_vars, min_profit_percentage, stats_vars, config_vars, report_vars, delivered,
                   feed_vars, executor_vars, bot_vars>>

InitFeed ==
    /\ InitDetector
    /\ min_profit_percentage = 500

NextFeed ==
    \/ FeedStart
    \/ FeedStop
    \/ AddCallback
    \/ \E outcomes \in FetchOutcomes : RestPriceLoopFetch(outcomes)
    \/ \E raises \in BOOLEAN : CallbackRuns(raises)

SpecFeed == InitFeed /\ [][NextFeed]_vars

\* every polling loop and every callback task that can run is run in the end
SpecFeedFair ==
    /\ SpecFeed
    /\ WF_vars(\E outcomes \in FetchOutcomes : RestPriceLoopFetch(outcomes))
    /\ WF_vars(\E raises \in BOOLEAN : CallbackRuns(raises))

\* The cache of the feed over time: the DEX APIs are down, the backup
\* sources answer or fail, and get_current_price is called at any time.
CacheOutcomes == {o \in FetchOutcomes : o.jupiter = "none" /\ o.raydium = "raise"}

NextCache ==
    \/ FeedStart
    \/ \E outcomes \in CacheOutcomes : RestPriceLoopFetch(outcomes)
    \/ \E outcomes \in CacheOutcomes : GetCurrentPrice(outcomes)
    \/ FeedClock

SpecCache == InitFeed /\ [][NextCache]_vars

(***************************************************************************)
(* The price-update handler around one trade after another                 *)
(***************************************************************************)
\* the handler finishes at most MaxHandled trades
MaxHandled == 1

\* SolanaClient.get_balance(token_symbol): outside paper mode the balance of
\* a token without a mint address is 0.0 (lines 335-338)
get_balance(mode, token) ==
    IF mode # "paper" /\ token \notin token_addresses
    THEN {[kind |-> "value", value |-> 0]}
    \* else an exception, None or 100.00
    ELSE {b \in BalanceOutcomes : b.kind = "value" => b.value = 10000}

\* main.py lines 265-287: execute_arbitrage_trade returned its result; the
\* handler passes it to on_trade_executed and returns
HandlerFinishes ==
    /\ pc = "done"
    /\ trades_executed < MaxHandled
    /\ on_trade_executed(result)
    /\ pc' = "idle"
    /\ trade' = NoTrade
    /\ result' = NoResult
    /\ calls' = <<>>
    /\ submissions' = [buy |-> 0, sell |-> 0]
    /\ network' = FALSE
    /\ last_op' = "on_price_update returned"
    /\ UNCHANGED <<detector_vars, config_vars, trading_bot, delivered, feed_vars, bot_vars, now>>

InitHandler ==
    /\ InitStrategy
    /\ InitExecutor
    /\ InitBotState
    /\ trading_mode \in TradingModes
    \* a SolanaClient with a wallet, with or without the token_decimals dict;
    \* its venue raises on a quote or answers
    /\ client \in {cl \in Clients : cl.get_jupiter_quote /\ cl.keypair}
    /\ venue_quote \in {"raise", "exact"}
    /\ configured_sources = price_sources
    /\ trading_bot = "ArbitrageBot"

NextHandler ==
    \* the signals detect_opportunities hands to the handler: every ordered
    \* pair of the configured tokens is compared, SOL/RAY among them
    \/ \E sig \in {t \in TradeSignals : t.action = "arbitrage" /\ t.expected_profit = 1200}
                      \cup {[action |-> "arbitrage", token_pair |-> <<"SOL", "RAY">>,
                              buy |-> [source |-> "jupiter", price |-> 10000],
                              sell |-> [source |-> "raydium", price |-> 10100],
                              expected_profit |-> 1200, confidence |-> 12000]} :
           ExecuteArbitrageTrade(sig)
    \* the balance of the quote token of the trade that awaits it
    \/ /\ pc = "get_balance"
       /\ \E b \in get_balance(trading_mode, trade.signal.token_pair[2]) :
              GetBalanceReturns(b)
    \/ BuyQuoteReturns
    \/ BuyTokenReturns
    \/ SellQuoteReturns
    \/ SellTokenReturns
    \/ HandlerFinishes

SpecHandler == InitHandler /\ [][NextHandler]_vars

(***************************************************************************)
(* The strategy between two resets: prices, detection, trade results       *)
(***************************************************************************)
NextReset ==
    \* the samples of one pair that make a signal
    \/ \E price_data \in {pd \in PriceInputs : /\ "source" \in DOMAIN pd
                                                 /\ pd.token_pair = <<"SOL", "USDC">>
                                                 /\ pd.price \in {10000, 10100}} :
           UpdatePrices(price_data)
    \/ DetectOpportunities
    \/ Tick
    \* a profit and a failed buy
    \/ \E trade_result \in {r \in TradeResults :
                                /\ "success" \in DOMAIN r
                                /\ "token_pair" \in DOMAIN r
                                /\ (r.success \/ "realized_profit" \notin DOMAIN r)} :
           OnTradeExecuted(trade_result)
    \/ Reset

SpecReset == InitDetector /\ [][NextReset]_vars

(***************************************************************************)
(* Price-update tasks while a trade is awaited                             *)
(***************************************************************************)
\* each venue delivers at most MaxDelivered samples
MaxDelivered == 3

\* _emit_price_update for one sample and the one registered callback:
\* asyncio.create_task(callback(price_data))
EmitPriceUpdate(price_data) ==
    /\ Len(tick_tasks) < MaxTasks
    /\ delivered[price_data.source] < MaxDelivered
    /\ delivered' = [delivered EXCEPT ![price_data.source] = @ + 1]
    /\ tick_tasks' = Append(tick_tasks, price_data)
    /\ last_op' = "emit_price_update"
    /\ UNCHANGED <<running, should_stop, main_loops, feed_running, feed_loops, callbacks,
                   client_closed, in_flight, detector_vars, min_profit_percentage, stats_vars,
                   config_vars, report_vars, feed_vars, executor_vars, now>>

NextOverlap ==
    \* the samples of the feed: the price of jupiter moves across raydium's
    \/ \E price_data \in
           { [source |-> "jupiter", token |-> "SOL", quote_token |-> "USDC", price |-> v] :
                 v \in {10000, 10200} }
             \cup { [source |-> "raydium", token |-> "SOL", quote_token |-> "USDC",
                      price |-> 10100] } :
           EmitPriceUpdate(price_data)
    \/ OnPriceUpdate
    \/ \E trade_result \in HandlerResults : TradeReturns(trade_result)

SpecOverlap == InitDetector /\ [][NextOverlap]_vars

(***************************************************************************)
(* fetch_all_dex_prices under the lists of sources a config can give       *)
(***************************************************************************)
\* a configured list names at most MaxSources venues
MaxSources == 3

\* how the APIs answer for each venue during one fetch_all_dex_prices call
SourceOutcomes ==
    [jupiter : {"price", "none"}, raydium : {"price", "none", "raise"},
     orca : {"price", "none", "raise"}]

\* one call of fetch_all_dex_prices(config, logger)
FetchAllDexPrices(outcomes) ==
    /\ dex_prices' = fetch_all_dex_prices(outcomes)
    /\ last_op' = "fetch_all_dex_prices"
    /\ UNCHANGED <<detector_vars, min_profit_percentage, stats_vars, config_vars,
                   report_vars, executor_vars, bot_vars, now, delivered,
                   current_price, last_update, got>>

InitSources ==
    /\ InitStrategy
    /\ InitExecutor
    /\ InitBotState
    /\ trading_mode = "paper"
    /\ client = SolanaClientAttributes
    /\ venue_quote = "exact"
    \* the values of config['arbitrage']['price_sources']: lists of venues,
    \* each venue at most once, with jupiter first, elsewhere or absent
    /\ configured_sources \in
           {l \in UNION {[1..n -> {"jupiter", "raydium", "orca"}] : n \in 1..MaxSources} :
               \A i, j \in DOMAIN l : i # j => l[i] # l[j]}
    /\ trading_bot = "ArbitrageBot"

NextSources == \E outcomes \in SourceOutcomes : FetchAllDexPrices(outcomes)

SpecSources == InitSources /\ [][NextSources]_vars

(***************************************************************************)
(* Properties                                                              *)
(***************************************************************************)
\* the positions of the client call c in the calls of the trade
CallsOf(c) == {i \in 1..Len(calls) : calls[i] = c}

\* buy_token, sell_token returned a dict with success=true
BuyLegSucceeded == "buy_result" \in DOMAIN trade /\ trade.buy_result.success
SellLegSucceeded == "sell_result" \in DOMAIN trade /\ trade.sell_result.success

\* the trade was sized and both mints of its pair are known
TradePrepared ==
    /\ "trade_amount" \in DOMAIN trade
    /\ trade.signal.token_pair[1] \in token_addresses
    /\ trade.signal.token_pair[2] \in token_addresses

\* C1: when buy_token returned success=true and the sell leg then failed
\* (sell_token returned success=false, the sell-leg quote was rejected, or a
\* call of the sell leg raised), the returned result has success=false, an
\* error that names the sell leg, and the buy leg's result under buy_result.
C1_SellFailureKeepsBuyResult ==
    (pc = "done" /\ BuyLegSucceeded /\ ~SellLegSucceeded)
        => /\ result.success = FALSE
           /\ result.error[1] \in {"Excessive slippage on sell", "Sell transaction failed"}
           /\ "buy_result" \in DOMAIN result
           /\ result.buy_result = trade.buy_result

\* C2: detect_opportunities never returns a signal for a corridor whose
\* cooldown entry was recorded less than cooldown_period before the call.
C2_NoSignalInsideCooldown ==
    [][(DetectOpportunities /\ signal'.action = "arbitrage")
          => \/ Corridor(signal') \notin DOMAIN last_arbitrage
             \/ now - last_arbitrage[Corridor(signal')] >= cooldown_period]_vars

\* a detect_opportunities call returned None although a pair shows a spread
\* that would be a candidate, because its corridor fired less than
\* cooldown_period before
C2_SuppressedByCooldown ==
    /\ last_op = "detect_opportunities"
    /\ signal = NoSignal
    /\ \E pair \in FedPairs :
         LET c == Candidate(price_history, min_profit_percentage, EmptyDict, now, pair)
         IN /\ c # <<>>
            /\ LET k == <<c[1].buy_source, c[1].sell_source, pair>>
               IN /\ k \in DOMAIN last_arbitrage
                  /\ last_arbitrage[k] < now
                  /\ now - last_arbitrage[k] < cooldown_period

\* C3: in every mode other than 'paper', buy_token is invoked only after a
\* buy-leg quote was obtained and passed validate_quote_slippage; and when the
\* venue gives no quote the trade fails with an error about the quote and no
\* swap is submitted.
C3_BuyOnlyAfterValidatedQuote ==
    trading_mode # "paper" =>
        /\ \A j \in CallsOf("buy_token") :
             /\ \E i \in CallsOf("buy_quote") : i < j
             /\ "buy_slippage" \in DOMAIN trade
             /\ trade.buy_slippage.valid
        /\ (pc = "done" /\ TradePrepared /\ venue_quote = "none")
             => /\ result.success = FALSE
                /\ result.error \in {<<"Excessive slippage detected", "Invalid quote response">>,
                                     <<"Buy transaction failed", "Failed to get quote">>}
                /\ submissions = [buy |-> 0, sell |-> 0]

\* C4: in a mode that trades for real, with max_slippage_pct at 1 %, a trade
\* whose buy-leg quote is 5 % below the output implied by the buy price
\* returns success=false with the excessive-slippage error and the slippage
\* observed, and invokes neither buy_token nor sell_token.
C4_ExcessiveSlippageHaltsTrade ==
    (trading_mode # "paper" /\ venue_quote = "below5" /\ pc = "done" /\ TradePrepared)
        => /\ result.success = FALSE
           /\ result.error = <<"Excessive slippage detected", "Excessive slippage">>
           /\ "buy_slippage" \in DOMAIN trade
           /\ result.slippage_pct = trade.buy_slippage.slippage_pct
           /\ result.slippage_pct > max_slippage_pct
           /\ CallsOf("buy_token") = {}
           /\ CallsOf("sell_token") = {}

\* C5: a sell-leg quote request or sell_token is invoked only after
\* buy_token was invoked and returned success=true; when buy_token returned
\* success=false the result is the buy failure carrying the buy result, and
\* no sell-leg call is made.
C5_SellOnlyAfterBuySucceeded ==
    /\ \A j \in CallsOf("sell_quote") \cup CallsOf("sell_token") :
         /\ \E i \in CallsOf("buy_token") : i < j
         /\ "buy_result" \in DOMAIN trade
         /\ trade.buy_result.success
    /\ ("buy_result" \in DOMAIN trade /\ ~trade.buy_result.success)
         => /\ pc = "done"
            /\ result.success = FALSE
            /\ result.error[1] = "Buy transaction failed"
            /\ result.details = trade.buy_result
            /\ CallsOf("sell_quote") \cup CallsOf("sell_token") = {}

\* a swap was sent for the buy leg, did not confirm, and the trade returned
C5_BuyFailed ==
    /\ pc = "done"
    /\ trading_mode = "live"
    /\ "buy_result" \in DOMAIN trade
    /\ trade.buy_result.success = FALSE
    /\ trade.buy_result.error = "Transaction failed to confirm"
    /\ result.details = trade.buy_result

\* C6: when get_balance returns 0, a negative amount or None, the trade
\* returns success=false with the insufficient-balance error, and
\* get_jupiter_quote, buy_token and sell_token are not invoked.
C6_NoBalanceNoTrade ==
    ("quote_balance" \in DOMAIN trade
       /\ (trade.quote_balance.kind = "none" \/ trade.quote_balance.value <= 0))
        => /\ pc = "done"
           /\ result.success = FALSE
           /\ result.error[1] = "Insufficient balance"
           /\ calls = <<"get_balance">>
           /\ submissions = [buy |-> 0, sell |-> 0]

\* a trade in mode 'mainnet' returned on a balance of exactly 0
C6_ZeroBalance ==
    /\ pc = "done"
    /\ trading_mode = "mainnet"
    /\ "quote_balance" \in DOMAIN trade
    /\ trade.quote_balance = [kind |-> "value", value |-> 0]
    /\ result.error = <<"Insufficient balance", "USDC">>

\* C7: within one execute_arbitrage_trade call buy_token and sell_token are
\* each invoked at most once, and at most one transaction is sent for the buy
\* leg and at most one for the sell leg, whatever failed.
C7_EachSwapSubmittedOnce ==
    /\ Cardinality(CallsOf("buy_token")) <= 1
    /\ Cardinality(CallsOf("sell_token")) <= 1
    /\ submissions.buy <= 1
    /\ submissions.sell <= 1

\* the swap of the sell leg was sent once and did not confirm
C7_SellSentAndFailed ==
    /\ pc = "done"
    /\ submissions = [buy |-> 1, sell |-> 1]
    /\ "sell_result" \in DOMAIN trade
    /\ trade.sell_result.success = FALSE
    /\ trade.sell_result.error \in {"Transaction failed to confirm", "Failed to submit transaction"}

\* quote_token_received - trade_amount of a trade whose two legs returned
RealizedProfit ==
    (IF "output_amount" \in DOMAIN trade.sell_result
     THEN trade.sell_result.output_amount
     ELSE (trade.base_token_amount * trade.signal.sell.price) \div Milli)
        - trade.trade_amount

C9_FailureRaisesThreshold ==
    [][/\ (\E r \in FailedResults : OnTradeExecuted(r))
             => min_profit_percentage' > min_profit_percentage
       /\ min_profit_percentage' >= min_profit_percentage]_vars

\* C10: a detect_opportunities call that returns a signal writes the
\* cooldown entry of the returned corridor and no other entry; a call that
\* returns None changes no entry.
C10_CooldownOnlyForReturned ==
    [][DetectOpportunities =>
          IF signal'.action = "arbitrage"
          THEN /\ Corridor(signal') \in DOMAIN last_arbitrage'
               /\ last_arbitrage'[Corridor(signal')] = now
               /\ \A k \in DOMAIN last_arbitrage' \ {Corridor(signal')} :
                    k \in DOMAIN last_arbitrage /\ last_arbitrage'[k] = last_arbitrage[k]
          ELSE last_arbitrage' = last_arbitrage]_vars

\* the price history without the histories shorter than min_samples
WithoutShortHistories(ph) ==
    [k \in {key \in DOMAIN ph : Len(ph[key]) >= min_samples} |-> ph[k]]

\* what detect_opportunities returns on the history ph
SignalOn(ph) ==
    LET scan == ScanPairs(1, ph, min_profit_percentage, now, <<>>, last_arbitrage)
    IN IF scan.opportunities # <<>>
       THEN MakeSignal(BestOpportunity(scan.opportunities))
       ELSE NoSignal

\* C11: the buy source and the sell source of a returned signal each have a
\* history of at least min_samples entries for the pair of the signal, and
\* the signal returned is the one returned when the histories shorter than
\* min_samples are taken away.
C11_ShortHistoryNeverConsidered ==
    [][DetectOpportunities =>
          /\ signal' = SignalOn(WithoutShortHistories(price_history))
          /\ signal'.action = "arbitrage" =>
               \A s \in {signal'.buy.source, signal'.sell.source} :
                   /\ <<s, signal'.token_pair>> \in DOMAIN price_history
                   /\ Len(price_history[<<s, signal'.token_pair>>]) >= min_samples]_vars

\* detect_opportunities returned None while raydium, with min_samples - 1
\* entries for SOL/USDC, showed a price 1 % above that of jupiter, which
\* has min_samples entries, and no corridor was in cooldown
C11_OneSampleShort ==
    /\ last_op = "detect_opportunities"
    /\ signal = NoSignal
    /\ last_arbitrage = EmptyDict
    /\ <<"raydium", <<"SOL", "USDC">>>> \in DOMAIN price_history
    /\ <<"jupiter", <<"SOL", "USDC">>>> \in DOMAIN price_history
    /\ Len(price_history[<<"raydium", <<"SOL", "USDC">>>>]) = min_samples - 1
    /\ Len(price_history[<<"jupiter", <<"SOL", "USDC">>>>]) >= min_samples
    /\ LatestPrice(price_history, "raydium", <<"SOL", "USDC">>) = 10100
    /\ LatestPrice(price_history, "jupiter", <<"SOL", "USDC">>) = 10000

C20_StopRequestShutsDown ==
    (last_op = "request_stop") ~> (~feed_running /\ client_closed)

\* C13: every history holds at most max_history (100) entries in the order
\* of arrival, and they are the entries appended last: after n samples of a
\* source, numbered by their price, its history is the samples
\* n - Len + 1 .. n with Len = min(n, 100).
C13_HistoryKeepsLatestHundred ==
    \A key \in DOMAIN price_history :
        LET hist == price_history[key]
            n == delivered[key[1]]
        IN /\ Len(hist) <= 100
           /\ Len(hist) = Min2(n, 100)
           /\ \A i \in 1..Len(hist) : hist[i].price = n - Len(hist) + i

\* jupiter delivered 102 samples: its history holds the samples 3 to 102
C13_TwoEvicted ==
    /\ delivered["jupiter"] = 102
    /\ <<"jupiter", <<"SOL", "USDC">>>> \in DOMAIN price_history
    /\ LET hist == price_history[<<"jupiter", <<"SOL", "USDC">>>>]
       IN Len(hist) = 100 /\ hist[1].price = 3 /\ hist[100].price = 102

\* the pairs that at least two sources qualify for
ComparedPairs ==
    {i \in 1..Len(PairList) : Len(QualifiedSources(price_history, PairList[i])) >= 2}

\* the gross spread a pair shows, and the modeled cost of trading it
GrossSpread(pair) ==
    LET srcs == QualifiedSources(price_history, pair)
    IN ProfitPercentage(LatestPrice(price_history, LowestSource(price_history, pair, srcs), pair),
                        LatestPrice(price_history, HighestSource(price_history, pair, srcs), pair))

ModeledCost(pair) ==
    LET srcs == QualifiedSources(price_history, pair)
    IN estimate_transaction_costs(LowestSource(price_history, pair, srcs),
                                  HighestSource(price_history, pair, srcs), pair)

\* C14: a signal returned by detect_opportunities has a sell price above its
\* buy price, two different sources, and an expected_profit that is the
\* gross spread minus estimate_transaction_costs(buy source, sell source,
\* pair) and is above 0.05; when the modeled cost is at least the gross
\* spread on every pair, detect_opportunities returns None.
C14_SignalIsNetOfCosts ==
    [][DetectOpportunities =>
          /\ signal'.action = "arbitrage" =>
               /\ signal'.sell.price > signal'.buy.price
               /\ signal'.sell.source # signal'.buy.source
               /\ signal'.expected_profit =
                     ProfitPercentage(signal'.buy.price, signal'.sell.price)
                       - estimate_transaction_costs(signal'.buy.source, signal'.sell.source,
                                                    signal'.token_pair)
               /\ signal'.expected_profit > 50
          /\ (\A i \in ComparedPairs : ModeledCost(PairList[i]) >= GrossSpread(PairList[i]))
                => signal' = NoSignal]_vars

\* detect_opportunities returned a signal for SOL/USDC, bought on jupiter at
\* 100.00 and sold on raydium at 101.00, with 0.60 % left of the 1 % spread
C14_OnePercentSpread ==
    /\ last_op = "detect_opportunities"
    /\ signal.action = "arbitrage"
    /\ signal.token_pair = <<"SOL", "USDC">>
    /\ signal.buy = [source |-> "jupiter", price |-> 10000]
    /\ signal.sell = [source |-> "raydium", price |-> 10100]
    /\ signal.expected_profit = 600

\* the candidates of one detect_opportunities call: the pairs that pass the
\* threshold, the cooldown and the safety margin, by their place in the loop
Survivors ==
    {i \in 1..Len(PairList) :
        Candidate(price_history, min_profit_percentage, last_arbitrage, now, PairList[i]) # <<>>}

NetProfitOf(i) ==
    Candidate(price_history, min_profit_percentage, last_arbitrage, now, PairList[i])[1].net_profit

\* C15: detect_opportunities returns None when no candidate survives, and
\* otherwise the signal of the surviving candidate with the highest net
\* profit, the first one in the order of the loop over the pairs among those
\* that tie for the highest.
C15_BestCandidateFirstOnTie ==
    [][DetectOpportunities =>
          IF Survivors = {} THEN signal' = NoSignal
          ELSE \E i \in Survivors :
                 /\ \A j \in Survivors : NetProfitOf(j) <= NetProfitOf(i)
                 /\ \A j \in Survivors : NetProfitOf(j) = NetProfitOf(i) => j >= i
                 /\ signal'.action = "arbitrage"
                 /\ signal'.token_pair = PairList[i]
                 /\ signal'.expected_profit = NetProfitOf(i)]_vars

\* one detect_opportunities call recorded the corridor of SOL/USDC and that
\* of USDC/SOL, both show jupiter at 100.00 and raydium at 101.00, and the
\* signal returned is that of SOL/USDC, the earlier pair of the loop
C15_TieOfMirroredPairs ==
    /\ last_op = "detect_opportunities"
    /\ signal.action = "arbitrage"
    /\ signal.token_pair = <<"SOL", "USDC">>
    /\ \A pair \in SpreadPairs :
         /\ <<"jupiter", "raydium", pair>> \in DOMAIN last_arbitrage
         /\ last_arbitrage[<<"jupiter", "raydium", pair>>] = now
         /\ Len(QualifiedSources(price_history, pair)) = 2
         /\ LatestPrice(price_history, "jupiter", pair) = 10000
         /\ LatestPrice(price_history, "raydium", pair) = 10100

\* jupiter shows 100.00 and raydium 100.30 for SOL/USDC, each with enough
\* samples, the threshold is 0 and the corridor is not in cooldown
ThirtyPointSpread ==
    /\ Len(QualifiedSources(price_history, <<"SOL", "USDC">>)) = 2
    /\ LatestPrice(price_history, "jupiter", <<"SOL", "USDC">>) = 10000
    /\ LatestPrice(price_history, "raydium", <<"SOL", "USDC">>) = 10030
    /\ min_profit_percentage = 0
    /\ ~InCooldown(last_arbitrage, <<"jupiter", "raydium", <<"SOL", "USDC">>>>, now)

\* C16: with venue A at 100.00 and venue B at 100.30 for the same pair,
\* detect_opportunities returns a signal that buys on A and sells on B with
\* a net profit of about 0.20 % (between 0.15 % and 0.25 %).
C16_ThirtyPointSpreadSignalled ==
    [][(DetectOpportunities /\ ThirtyPointSpread) =>
          /\ signal'.action = "arbitrage"
          /\ signal'.buy.source = "jupiter"
          /\ signal'.sell.source = "raydium"
          /\ signal'.expected_profit >= 150
          /\ signal'.expected_profit <= 250]_vars

\* the amount_usd a buy_token call was given, as its result echoes it
BuyAmounts ==
    IF "buy_result" \in DOMAIN trade
    THEN {trade.buy_result[k] : k \in {"amount", "amount_requested"} \cap DOMAIN trade.buy_result}
    ELSE {}

\* the amount_token a sell_token call was given, as its result echoes it
SellAmounts ==
    IF "sell_result" \in DOMAIN trade
    THEN {trade.sell_result[k] : k \in {"amount", "amount_sold"} \cap DOMAIN trade.sell_result}
    ELSE {}

\* min(max exposure, 10 x min(3, expected_profit / 2)) percent of the
\* balance, and the minimum trade size of 5 when that is less
SizeOf(balance, expected_profit) ==
    LET percentage == Min2(30 * PctUnit, 10 * Min2(3 * PctUnit, expected_profit \div 2))
        amount == (balance * percentage) \div (100 * PctUnit)
    IN Max2(amount, 5 * Cent)

C18_SellLegUsesReceivedAmount ==
    ("base_token_amount" \in DOMAIN trade /\ "output_amount" \in DOMAIN trade.buy_result)
        => /\ trade.base_token_amount = trade.buy_result.output_amount
           /\ \A a \in SellAmounts : a = trade.buy_result.output_amount

\* a sell_token call was given the amount the buy leg reported, which is
\* half of the amount that was sized
C18_HalfReceivedHalfSold ==
    /\ "sell_result" \in DOMAIN trade
    /\ "amount_sold" \in DOMAIN trade.sell_result
    /\ "output_amount" \in DOMAIN trade.buy_result
    /\ trade.buy_result.output_amount
         = ExpectedBaseAmount(trade.trade_amount, trade.signal.buy.price) \div 2
    /\ trade.buy_result.output_amount > 0
    /\ trade.sell_result.amount_sold = trade.buy_result.output_amount

\* C19: no buy is given an amount above the configured
\* trading.max_trade_size.
C19_BuyWithinMaxTradeSize ==
    \A a \in BuyAmounts : a <= max_trade_size

\* C21: while a handler awaits execute_arbitrage_trade, stopping the bot
\* does not close the chain client: the client stays open until every trade
\* in flight has returned its result.
C21_ClientOpenUntilTradesReturn ==
    [][(in_flight > 0 /\ ~client_closed) => ~client_closed']_vars

\* C22: PriceFeedManager.start() on a feed that is running creates no
\* polling loop and changes nothing of the feed.
C22_StartWhileRunningIsNoOp ==
    [][(FeedStart /\ feed_running) =>
          /\ feed_loops' = feed_loops
          /\ feed_running'
          /\ UNCHANGED <<callbacks, tick_tasks, feed_vars>>]_vars

\* start() returned early on a feed that runs its one polling loop
C22_StartedTwice ==
    /\ last_op = "feed_start returned"
    /\ feed_running
    /\ feed_loops = 1

\* the polling loops beyond the one a running feed has
SurvivingLoops == feed_loops - (IF feed_running THEN 1 ELSE 0)

\* C23: after PriceFeedManager.stop() the polling loop that was running
\* ends: in the end no loop polls besides the one of a feed started anew.
C23_StoppedLoopEnds ==
    (last_op = "feed_stop") ~> (SurvivingLoops <= 0)

\* C24: get_current_price never returns a sample that is 2 x
\* update_interval old or older, also when its refetch obtained no price.
C24_NoStaleSampleReturned ==
    (got # None /\ got.value # None) => got.age < 2 * update_interval

\* C25: when get_current_price is called less than one update_interval
\* after the call before and no sample arrived in between, it returns the
\* value the call before returned, and it fetches nothing.
C25_RepeatedCallSameValueNoFetch ==
    (got # None /\ got.repeats # <<>>)
        => /\ got.value = got.repeats[1]
           /\ ~got.fetched

\* C25, amended: such a call returns the value the call before returned;
\* it fetches nothing when that value is a sample younger than 2 x
\* update_interval, and fetches when there is no sample or it is that old.
C25_RepeatedCallSameValue ==
    (got # None /\ got.repeats # <<>>)
        => /\ got.value = got.repeats[1]
           /\ got.fetched <=> (got.value = None \/ got.age >= 2 * update_interval)

\* a second call, one tick after the first and with no sample in between,
\* returned the same sample, by then older than one update_interval,
\* without a fetch
C25_SecondCallFromCache ==
    /\ got # None
    /\ got.repeats # <<>>
    /\ got.value # None
    /\ got.value = got.repeats[1]
    /\ got.age >= update_interval
    /\ ~got.fetched

\* the tasks a step added to the queue
NewTasks == SubSeq(tick_tasks', Len(tick_tasks) + 1, Len(tick_tasks'))

C29_TradeHistoryBounded == Len(trade_history) <= max_trade_history

\* C30: for every failed trade result passed to on_trade_executed,
\* report_trade_error is called exactly once, with the message and the trade
\* details of that failure, whichever orchestrator constructed the strategy;
\* and whether or not the reporter raises, the failure is recorded in the
\* trade history and the threshold is tightened.
C30_EveryFailureReportedOnce ==
    [][\A trade_result \in FailedResults :
          OnTradeExecuted(trade_result) =>
             /\ Len(reports') = Len(reports) + 1
             /\ SubSeq(reports', 1, Len(reports)) = reports
             /\ LET call == reports'[Len(reports')]
                    trade_record == FailureRecord(trade_result)
                IN /\ call.error_message = <<"Failed trade", trade_record.token_pair, trade_record.error>>
                   /\ call.trade_details.pair = trade_record.token_pair
                   /\ call.trade_details.amount = trade_record.trade_amount
             /\ trade_history' = Append(trade_history, FailureRecord(trade_result))
             /\ min_profit_percentage' = Tighten(min_profit_percentage)]_vars

\* C31: whatever the chain client does on any of its calls (fail or raise),
\* an execute_arbitrage_trade call on a detected signal ends by returning a
\* result dict that has a boolean success field; and once the handler has
\* returned, the result was processed and the next trade can be started.
C31_TradeAlwaysReturnsResult ==
    /\ pc = "done" => ("success" \in DOMAIN result /\ result.success \in BOOLEAN)
    /\ pc \in {"idle", "get_balance", "buy_quote", "buy_token", "sell_quote", "sell_token", "done"}
    /\ last_op = "on_price_update returned" => (pc = "idle" /\ trades_executed >= 1)

\* the first trade ended in an exception of a client call, and the next
\* price update's trade ran to a profit
C31_TradeAfterException ==
    /\ trades_executed = 1
    /\ Len(trade_history) = 1
    /\ "error" \in DOMAIN trade_history[1]
    /\ trade_history[1].error = <<"str(e)", "">>
    /\ pc = "done"
    /\ "success" \in DOMAIN result
    /\ result.success

\* C32: a finished trade on a pair whose base or quote token has no mint
\* address, in a wallet whose balance check raised no other fault, has
\* success = false with the missing-mint-address error and sent no swap.
C32_UnknownTokenReportedMissing ==
    (/\ pc = "done"
     /\ "token_pair" \in DOMAIN trade.signal
     /\ \E i \in 1..2 : trade.signal.token_pair[i] \notin token_addresses
     /\ "quote_balance" \in DOMAIN trade
     /\ trade.quote_balance.kind = "value"
     /\ (trade.signal.token_pair[2] \in token_addresses => trade.quote_balance.value > 0))
    => /\ ~result.success
       /\ result.error[1] = "Missing token mint addresses"
       /\ submissions = [buy |-> 0, sell |-> 0]

C34_ResetClearsStrategy ==
    last_op = "reset" =>
       /\ trades_executed = 0
       /\ successful_trades = 0
       /\ total_profit = 0
       /\ trade_history = <<>>
       /\ DOMAIN price_history = {}
       /\ \A i \in 1..Len(PairList) :
             /\ QualifiedSources(price_history, PairList[i]) = <<>>
             /\ \A b, s \in {"jupiter", "raydium"} :
                   ~InCooldown(last_arbitrage, <<b, s, PairList[i]>>, now)

\* a reset at the instant a signal fired and put its corridor in cooldown,
\* after a failed trade was recorded and reported
C34_ResetInsideCooldown ==
    /\ last_op = "reset"
    /\ now = 0
    /\ signal # NoSignal
    /\ reports # <<>>

\* C35: when the handler passes on the result of a trade whose two legs
\* executed and that settled without a profit, the record appended to the
\* trade history carries the realized profit and the trade amount of that
\* result, and the profit total moves by the realized profit.
C35_LossRecordedWithItsAmount ==
    [][(/\ HandlerFinishes
        /\ "realized_profit" \in DOMAIN result
        /\ ~result.success)
       => /\ Len(trade_history') = Len(trade_history) + 1
          /\ trade_history'[Len(trade_history')].realized_profit = result.realized_profit
          /\ trade_history'[Len(trade_history')].trade_amount = result.trade_amount
          /\ total_profit' = total_profit + result.realized_profit]_vars

\* C36: at most one execute_arbitrage_trade call is in flight at any time:
\* no handler starts a trade while another handler still awaits its own.
C36_OneTradeInFlight == in_flight <= 1

\* C37: while the feed is running, at most one _rest_price_loop task is
\* alive and polling.
C37_AtMostOnePollingLoop == feed_running => feed_loops <= 1

\* C38: after any sequence of start, stop and restart of the bot, its
\* on_price_update handler is registered with the price feed at most once.
C38_HandlerRegisteredOnce == callbacks <= 1

\* what the fetch made for venue s returned during a call with these
\* outcomes: a price or nothing
FetchedFor(s, outcomes) ==
    IF s = "jupiter"
    THEN IF outcomes.jupiter = "price"
         THEN [kind |-> "price", price |-> ApiPrice("jupiter")]
         ELSE [kind |-> "none"]
    ELSE fetch_dex_price(s, outcomes[s],
                         IF (\E i \in DOMAIN configured_sources :
                                 configured_sources[i] = "jupiter")
                            /\ outcomes.jupiter = "price"
                         THEN ApiPrice("jupiter") ELSE 0)

\* the venues of the configured list with the price their fetch returned
PricesFetched(outcomes) ==
    {[source |-> configured_sources[i],
      price |-> FetchedFor(configured_sources[i], outcomes).price] :
        i \in {j \in DOMAIN configured_sources :
                  FetchedFor(configured_sources[j], outcomes).kind = "price"}}

\* the venue and price of each entry of a returned dict
PricesRecorded(prices) ==
    {[source |-> prices[i].source, price |-> prices[i].price] : i \in DOMAIN prices}

\* C39: for every configured list of sources, fetch_all_dex_prices records
\* each price under the venue it was fetched for, and every venue whose
\* fetch returned a price is in the result.
C39_PricesFiledUnderTheirVenue ==
    [][\A outcomes \in SourceOutcomes :
           FetchAllDexPrices(outcomes) =>
               PricesRecorded(dex_prices') = PricesFetched(outcomes)]_vars

\* C40: the amount a buy_token call is given never exceeds the quote-token
\* balance that get_balance returned, nor max_exposure_percentage of it.
C40_BuyWithinBalanceAndExposure ==
    \A a \in BuyAmounts :
        /\ a <= trade.quote_balance.value
        /\ a * 100 <= trade.quote_balance.value * max_exposure_percentage

====
